---------------------------- MODULE Spec2Model ----------------------------
(***************************************************************************)
(* TERPS pico2 firmware: the edge counter (edge_counter.cpp), the PPS      *)
(* disciplining filter (pps_cal.cpp) and the measurement pipeline          *)
(* (main.cpp) as state machines.                                           *)
(*                                                                         *)
(* Units.  Times are microseconds (time_us_64).  Frequencies, floats in    *)
(* the source, are integers in centi-hertz (Hz x 100); min_interval_frac   *)
(* is an integer percentage; ppm values are integers in centi-ppm.         *)
(***************************************************************************)
EXTENDS Integers, Sequences, FiniteSets, TLC

(***************************************************************************)
(* Program constants.                                                      *)
(***************************************************************************)
MIN_RECIP_EDGES == 64
MAX_QUEUE_DEPTH == 32
DEFAULT_FREQ_ESTIMATE == 30000
MAX_FREQ_LIMIT == 1000000
MIN_FREQ_LIMIT == 1
FRAME_QUEUE_DEPTH == 16
DEFAULT_MIN_INTERVAL_PCT == 25
PPS_EXPECTED_INTERVAL_US == 1000000
PPS_LOCK_THRESHOLD_PPM == 5
PPS_TIMEOUT_US == 3000000
PPS_LOCK_COUNTER_MAX == 5
PPS_LOCK_LEVEL == 3

TERPS_MODE_GATED == "GATED"
TERPS_MODE_RECIP == "RECIP"
TERPS_FLAG_SYNC_ACTIVE == "SYNC_ACTIVE"
TERPS_FLAG_ADC_TIMEOUT == "ADC_TIMEOUT"
TERPS_FLAG_PPS_LOCKED == "PPS_LOCKED"
TERPS_FLAG_ADC_SATURATED == "ADC_SATURATED"

(***************************************************************************)
(* Bounds of the model.                                                    *)
(*   QueueLength      g_config.queue_length                                *)
(*   TauMs            g_config.tau_ms                                      *)
(*   EdgeGapUs        spacing of the regular input edges                   *)
(*   MaxRawEdges      edges delivered to one window (caps raw_edges)       *)
(*   MaxShortEdges    edges delivered to a window that cannot reach its    *)
(*                    target within MaxRawEdges (a Gated one, or a         *)
(*                    Reciprocal one with a larger target)                 *)
(*   MaxBursts        windows of one run that get more than MaxShortEdges  *)
(*   MaxGlitches      edges of one window that fall inside the deadband    *)
(*   MaxAdcTimeouts   ADC reads of one run that time out                   *)
(*   MaxNow           the clock stops advancing here                       *)
(*   MaxSyncEvents    transitions of the sync line in a run of sync events *)
(*   MaxStops         calls of freq_counter_stop in one run                *)
(*   FewSyncEvents    transitions of the sync line in a run with a burst   *)
(*   MaxResults       the input falls silent after this many FreqResults   *)
(*   PpsDriftUs       error of a PPS interval that is in lock               *)
(*   MaxPpsNow        the PPS clock stops advancing here                   *)
(*   MaxSlips         pps_cal_tick calls overtaken by the clock            *)
(*   LongGapUs        a pause of the input signal inside an open window    *)
(*   S1TauMs          g_config.tau_ms in the steady-signal scenario        *)
(*   S1EdgeGapUs      spacing of the edges in the steady-signal scenario   *)
(*   S1MaxNow         the clock of the steady-signal scenario stops here   *)
(*   MaxUsbFails      calls of usb_cdc_send_frame in one run that fail     *)
(*   MaxSetMins       calls of freq_counter_set_min_interval in one run    *)
(*   MaxTwinEdges     edges delivered to the twin deglitch runs            *)
(*   MaxCalNow        the clock of the calibrated run stops here           *)
(***************************************************************************)
QueueLength == 2
TauMs == 1
EdgeGapUs == 8
MaxRawEdges == 65
MaxShortEdges == 2
MaxBursts == 1
MaxResults == 3
MaxGlitches == 1
MaxAdcTimeouts == 1
MaxNow == 2100
MaxSyncEvents == 3
MaxStops == 1
FewSyncEvents == 1
BootUs == 8
PpsDriftUs == 3
MaxPpsNow == 8000100
MaxSlips == 1
\* the length of a pause of the input signal, in microseconds
LongGapUs == 2000000
\* the steady-signal scenario: window length, edge spacing, duration
S1TauMs == 100
S1EdgeGapUs == 100
S1MaxNow == 500700
\* sends of one run that fail; set_min_interval calls of one run
MaxUsbFails == 1
MaxSetMins == 1
\* edges delivered to the twin deglitch runs
MaxTwinEdges == 6
\* the calibrated run stops at this time (us): room for a PPS interval in
\* lock or one with a missed pulse
MaxCalNow == 2000100

\* what the surroundings do in one run: the sync pin toggles often; or a
\* stop, a long burst and an ADC timeout happen with the sync pin at rest;
\* or the sync pin toggles little, next to a burst and an ADC timeout, or
\* next to a stop; or a send fails; or the host calls set_min_interval
\* before a burst
Budgets ==
    {[sync |-> MaxSyncEvents, stop |-> 0, burst |-> 0, adc |-> 0,
      usb |-> 0, setmin |-> 0],
     [sync |-> 0, stop |-> MaxStops, burst |-> MaxBursts,
      adc |-> MaxAdcTimeouts, usb |-> 0, setmin |-> 0],
     [sync |-> FewSyncEvents, stop |-> 0, burst |-> MaxBursts,
      adc |-> MaxAdcTimeouts, usb |-> 0, setmin |-> 0],
     [sync |-> FewSyncEvents, stop |-> MaxStops, burst |-> 0, adc |-> 0,
      usb |-> 0, setmin |-> 0],
     [sync |-> 0, stop |-> 0, burst |-> 0, adc |-> 0,
      usb |-> MaxUsbFails, setmin |-> 0],
     [sync |-> 0, stop |-> 0, burst |-> MaxBursts, adc |-> 0,
      usb |-> 0, setmin |-> MaxSetMins]}

Modes == {TERPS_MODE_GATED, TERPS_MODE_RECIP}

Max(a, b) == IF a >= b THEN a ELSE b
Min(a, b) == IF a <= b THEN a ELSE b

(***************************************************************************)
(* edge_counter.cpp: pure helpers.                                         *)
(***************************************************************************)
\* Hz -> centi-hertz
CentiHz(hz) == hz * 100

\* clamp_freq, on centi-hertz
clamp_freq(value) ==
    IF value < CentiHz(MIN_FREQ_LIMIT) THEN CentiHz(MIN_FREQ_LIMIT)
    ELSE IF value > CentiHz(MAX_FREQ_LIMIT) THEN CentiHz(MAX_FREQ_LIMIT)
    ELSE value

\* a deadband of the rest of the period, (1e6 / freq) * (1 - frac) (a fault
\* C21 must see)
MinIntervalUsComplement(freq_estimate, frac_pct) ==
    LET freq == clamp_freq(freq_estimate)
        frac == IF frac_pct <= 0 THEN DEFAULT_MIN_INTERVAL_PCT ELSE frac_pct
        min_interval == (1000000 * (100 - frac)) \div freq
    IN  IF min_interval < 1 THEN 1 ELSE min_interval

\* a deadband without the floor of 1 (a fault C29 must see)
MinIntervalUsNoFloor(freq_estimate, frac_pct) ==
    LET freq == clamp_freq(freq_estimate)
        frac == IF frac_pct <= 0 THEN DEFAULT_MIN_INTERVAL_PCT ELSE frac_pct
    IN  (1000000 * frac) \div freq

\* update_min_interval_locked: (uint32_t)((1e6 / freq) * frac), at least 1
MinIntervalUs(freq_estimate, frac_pct) ==
    LET freq == clamp_freq(freq_estimate)
        frac == IF frac_pct <= 0 THEN DEFAULT_MIN_INTERVAL_PCT ELSE frac_pct
        min_interval == (1000000 * frac) \div freq
    IN  IF min_interval < 1 THEN 1 ELSE min_interval

\* compute_target_edges_locked: (uint32_t)(freq * tau_ms / 1000 + 0.5), at least 64
TargetEdges(freq_estimate, tau_ms) ==
    LET freq == clamp_freq(freq_estimate)
        whole == (freq \div 100000) * tau_ms
        part == (((freq % 100000) * tau_ms * 2) + 100000) \div 200000
        edges == whole + part
    IN  IF edges < MIN_RECIP_EDGES THEN MIN_RECIP_EDGES ELSE edges

\* enqueue_result_locked, lines 98-101: end_us as emitted
EmitEndUs(start_us, end_us) ==
    IF end_us <= start_us THEN start_us + 1 ELSE end_us

\* enqueue_result_locked, line 111: pulses * 1e6 / elapsed_us, in centi-hertz
\* (computed by long division, digit by digit)
RECURSIVE ScaledQuotient(_, _, _)
ScaledQuotient(r, d, digits) ==
    IF digits = 0 THEN 0
    ELSE (((r * 10) \div d) * (10 ^ (digits - 1)))
         + ScaledQuotient((r * 10) % d, d, digits - 1)

RawFreq(pulses, elapsed_us) ==
    ((pulses \div elapsed_us) * (10 ^ 8))
    + ScaledQuotient(pulses % elapsed_us, elapsed_us, 8)

\* enqueue_result_locked, line 112: freq_hz *= 1 + timebase_ppm * 1e-6
\* (timebase_ppm in centi-ppm); freq * ppm_x100 / 10^8 rounded down, the
\* product taken in limbs of four digits so that it stays within 32 bits
ApplyPpm(freq, ppm_x100) ==
    LET hi == freq \div 10000
        lo == freq % 10000
        ph == ppm_x100 \div 10000
        pl == ppm_x100 % 10000
    IN  freq + (hi * ph)
             + (((hi * pl) + (lo * ph) + ((lo * pl) \div 10000)) \div 10000)

\* enqueue_result_locked, line 121: (uint32_t)(elapsed_us / 1000 + 0.5)
ObservedTauMs(elapsed_us) == (elapsed_us + 500) \div 1000


\* enqueue_result_locked, line 124: (int32_t)llroundf(freq_hz * 1e4f); the
\* value freq x 100 is reduced modulo 2^32 in 16-bit limbs and read as signed
Int32OfX1e4(freq) ==
    LET a == freq \div 65536
        b == freq % 65536
        c == (100 * b) \div 65536
        d == (100 * b) % 65536
        h == ((100 * a) + c) % 65536
    IN  IF h >= 32768 THEN ((h - 65536) * 65536) + d ELSE (h * 65536) + d

(***************************************************************************)
(* config_default.cpp                                                      *)
(***************************************************************************)
CfgMinIntervalPct == 25
CfgTimebasePpm == 0
CfgAdcGain == 16

\* freq_counter_init, lines 253-256, and main.cpp init_config, lines 58-60
FreqDepth ==
    IF QueueLength = 0 \/ QueueLength > MAX_QUEUE_DEPTH THEN 8 ELSE QueueLength
FrameDepth ==
    IF QueueLength = 0 \/ QueueLength > 64 THEN FRAME_QUEUE_DEPTH ELSE QueueLength

(***************************************************************************)
(* pico-sdk queue, as the call sites use it.                               *)
(***************************************************************************)
\* a queue_try_add that puts the element at the head (a fault C6 must see)
QueuePushFront(q, depth, x) == IF Len(q) < depth THEN <<x>> \o q ELSE q

\* queue_try_add: the queue afterwards, unchanged when the call returns false
QueueTryAdd(q, depth, x) == IF Len(q) < depth THEN Append(q, x) ELSE q

\* a queue_try_remove that removes nothing (a fault C4 must see)
QueueKeepAll(q) == q

\* a queue_try_remove that takes the newest element (a fault C5 must see)
QueueRemoveNewest(q) == IF q = << >> THEN q ELSE SubSeq(q, 1, Len(q) - 1)

\* queue_try_remove: the queue afterwards
QueueTryRemove(q) == IF q = << >> THEN q ELSE Tail(q)

VARIABLES
    now,              \* time_us_64()
    cfg_mode,        \* g_config.mode
    cfg_tau_ms,      \* g_config.tau_ms
    g_state,          \* edge_counter.cpp g_state
    alarms,           \* the alarm pool: live alarms [id, deadline]
    freq_queue,       \* edge_counter.cpp g_result_queue
    epc,              \* core 0 inside enqueue_result_locked: idle, drop, readd
    e_result,         \* the result that call is enqueueing
    irq,              \* a core-0 handler spinning on g_lock
    started,          \* main() has issued the first start_window
    burst_left,       \* long bursts of edges still to come
    sync_level,       \* the level of the sync pin
    sync_left,        \* sync transitions still to come
    stop_left,        \* stop calls still to come
    emitted,          \* number of FreqResults built so far
    win_by_sync,      \* the armed window was begun by a sync rising edge
    wpc,              \* core 1: wait, process, drop, readd, rearm, locked
    w_freq,           \* core1_main's freq
    w_frame,          \* process_frequency_result's frame
    g_last_diode_uV,  \* main.cpp g_last_diode_uV
    g_frame_queue,    \* main.cpp g_frame_queue
    adc_fail_left,    \* ADC timeouts still to come
    pushed_log,       \* seq of the last FrameDepth Frames the worker enqueued
    sent_last,        \* seq of the last Frame handed to usb_cdc_send_frame
    g_last_edge_us,   \* pps_cal.cpp
    g_last_tick_us,
    g_correction_ppm,
    g_locked,
    g_lock_counter,
    tpc,              \* main loop inside feed_pps_correction: idle, check,
                      \* store, feed
    tick_now,         \* pps_cal_tick's now
    slip_left,        \* ticks still to be overtaken by the clock
    tick_pending,     \* stores of pps_cal_tick's reset still to be done
    pps_hist,         \* error_ppm of the intervals measured since the last
                      \* store of a reset
    pps_base,         \* g_lock_counter when pps_hist was last emptied
    cdc_out,          \* the CDC link: seq of the last Frame written, the
                      \* last return of usb_cdc_send_frame, seq of the
                      \* last Frame not written
    usb_fail_left,    \* sends still to fail
    setmin_left,      \* set_min_interval calls still to come
    twin_lo,          \* one Gated window run with the smaller deadband
    twin_hi           \* the same edges run with the larger deadband

ecVars == <<cfg_mode, cfg_tau_ms, g_state, alarms, freq_queue, epc, e_result, irq,
            started, burst_left, sync_level, sync_left, stop_left, emitted,
            win_by_sync>>
plVars == <<wpc, w_freq, w_frame, g_last_diode_uV, g_frame_queue,
            adc_fail_left, pushed_log, sent_last>>
ppsVars == <<g_last_edge_us, g_last_tick_us, g_correction_ppm, g_locked,
             g_lock_counter, tpc, tick_now, slip_left, tick_pending, pps_hist,
             pps_base>>
\* the transport, the host's calls and the twin deglitch runs
auxVars == <<cdc_out, usb_fail_left, setmin_left, twin_lo, twin_hi>>
vars == <<now, ecVars, plVars, ppsVars, auxVars>>

NoIrq == [kind |-> "none", ts |-> 0, high |-> FALSE]
NoResult == [seq |-> 0]
NoFrame == [seq |-> 0]

(***************************************************************************)
(* edge_counter.cpp: the state operations, as functions of g_state.        *)
(***************************************************************************)
\* cancel_alarm
CancelAlarm(al, id) == {a \in al : a.id # id}

\* the id add_alarm_in_ms returns: positive, not that of a live alarm
NewAlarmId(al, s) ==
    CHOOSE i \in 1..(Cardinality(al) + 2) :
        /\ i # s.gate_alarm
        /\ \A a \in al : a.id # i

\* freq_counter_init, lines 259-265
InitState ==
    [mode |-> TERPS_MODE_GATED, active |-> FALSE, window_open |-> FALSE,
     sync_forced |-> FALSE, tau_ms |-> cfg_tau_ms, pulses |-> 0,
     target_edges |-> 0, raw_edges |-> 0, glitch_count |-> 0,
     min_interval_us |->
         MinIntervalUs(CentiHz(DEFAULT_FREQ_ESTIMATE),
                       IF CfgMinIntervalPct > 0 THEN CfgMinIntervalPct
                       ELSE DEFAULT_MIN_INTERVAL_PCT),
     min_interval_frac |->
         IF CfgMinIntervalPct > 0 THEN CfgMinIntervalPct
         ELSE DEFAULT_MIN_INTERVAL_PCT,
     freq_estimate_hz |-> CentiHz(DEFAULT_FREQ_ESTIMATE),
     timebase_ppm |-> CfgTimebasePpm,
     start_us |-> 0, end_us |-> 0, last_edge_us |-> 0, gate_alarm |-> -1]

\* reset_state_locked: the fields
reset_state_locked(s) ==
    [s EXCEPT !.active = FALSE, !.window_open = FALSE, !.sync_forced = FALSE,
              !.pulses = 0, !.raw_edges = 0, !.target_edges = 0,
              !.glitch_count = 0, !.start_us = 0, !.end_us = 0,
              !.last_edge_us = 0,
              !.gate_alarm = IF s.gate_alarm >= 0 THEN -1 ELSE s.gate_alarm]

\* reset_state_locked: the alarm pool
AlarmsAfterReset(s, al) ==
    IF s.gate_alarm >= 0 THEN CancelAlarm(al, s.gate_alarm) ELSE al

\* a start_window_locked that opens the window at once in both modes (a
\* fault C28 must see)
StartWindowOpensAtOnce(s, mode, tau_ms, t, id) ==
    [s EXCEPT !.mode = mode, !.tau_ms = tau_ms, !.pulses = 0,
              !.raw_edges = 0, !.glitch_count = 0, !.last_edge_us = 0,
              !.sync_forced = FALSE, !.active = TRUE,
              !.window_open = TRUE, !.start_us = t, !.end_us = t,
              !.target_edges =
                  IF mode = TERPS_MODE_RECIP
                  THEN TargetEdges(s.freq_estimate_hz, tau_ms)
                  ELSE s.target_edges,
              !.gate_alarm =
                  IF mode = TERPS_MODE_RECIP THEN s.gate_alarm ELSE id]

\* start_window_locked: the fields; t is time_us_64(), id the new alarm's id
start_window_locked(s, mode, tau_ms, t, id) ==
    LET open == (mode = TERPS_MODE_GATED)
        start == IF open THEN t ELSE 0
    IN  [s EXCEPT !.mode = mode, !.tau_ms = tau_ms, !.pulses = 0,
                  !.raw_edges = 0, !.glitch_count = 0, !.last_edge_us = 0,
                  !.sync_forced = FALSE, !.active = TRUE,
                  !.window_open = open, !.start_us = start, !.end_us = start,
                  !.target_edges =
                      IF mode = TERPS_MODE_RECIP
                      THEN TargetEdges(s.freq_estimate_hz, tau_ms)
                      ELSE s.target_edges,
                  !.gate_alarm =
                      IF mode = TERPS_MODE_RECIP THEN s.gate_alarm ELSE id]

\* a start_window_locked that schedules without cancelling (a fault C13 must
\* see)
AlarmsAfterStartKeepOld(s, al, mode, tau_ms, t, id) ==
    IF mode = TERPS_MODE_RECIP THEN al
    ELSE al \cup {[id |-> id, deadline |-> t + (tau_ms * 1000)]}

\* start_window_locked: the alarm pool (lines 177-184)
AlarmsAfterStart(s, al, mode, tau_ms, t, id) ==
    IF mode = TERPS_MODE_RECIP THEN al
    ELSE (IF s.gate_alarm >= 0 THEN CancelAlarm(al, s.gate_alarm) ELSE al)
         \cup {[id |-> id, deadline |-> t + (tau_ms * 1000)]}

\* a handler that counts the raw edge after the deadband test, so not for a
\* glitch (a fault C25 must see)
HandleEdgeRawAfterTest(s, timestamp_us) ==
    IF ~s.active THEN s
    ELSE IF /\ s.last_edge_us # 0
            /\ timestamp_us - s.last_edge_us < s.min_interval_us
    THEN [s EXCEPT !.glitch_count = @ + 1]
    ELSE [s EXCEPT !.raw_edges = @ + 1,
                   !.last_edge_us = timestamp_us,
                   !.window_open = TRUE,
                   !.start_us = IF s.window_open THEN @ ELSE timestamp_us,
                   !.end_us = timestamp_us,
                   !.pulses = @ + 1]

\* a handler whose deadband restarts at every edge, discarded ones too (a
\* fault C27 must see)
HandleEdgeRetrigger(s, timestamp_us) ==
    IF ~s.active THEN s
    ELSE IF /\ s.last_edge_us # 0
            /\ timestamp_us - s.last_edge_us < s.min_interval_us
    THEN [s EXCEPT !.raw_edges = @ + 1, !.glitch_count = @ + 1,
                   !.last_edge_us = timestamp_us]
    ELSE [s EXCEPT !.raw_edges = @ + 1,
                   !.last_edge_us = timestamp_us,
                   !.window_open = TRUE,
                   !.start_us = IF s.window_open THEN @ ELSE timestamp_us,
                   !.end_us = timestamp_us,
                   !.pulses = @ + 1]

\* handle_edge_locked up to line 208: the fields (the emission at lines
\* 210-212 is EdgeReachesTarget)
handle_edge_locked(s, timestamp_us) ==
    IF ~s.active THEN s
    ELSE IF /\ s.last_edge_us # 0
            /\ timestamp_us - s.last_edge_us < s.min_interval_us
    THEN [s EXCEPT !.raw_edges = @ + 1, !.glitch_count = @ + 1]
    ELSE [s EXCEPT !.raw_edges = @ + 1,
                   !.last_edge_us = timestamp_us,
                   !.window_open = TRUE,
                   !.start_us = IF s.window_open THEN @ ELSE timestamp_us,
                   !.end_us = timestamp_us,
                   !.pulses = @ + 1]

\* handle_edge_locked: whether this edge is accepted
EdgeAccepted(s, timestamp_us) ==
    /\ s.active
    /\ ~(/\ s.last_edge_us # 0
         /\ timestamp_us - s.last_edge_us < s.min_interval_us)

\* a target test with > for >= (a fault C19 must see)
EdgeReachesTargetLate(s1) ==
    s1.mode = TERPS_MODE_RECIP /\ s1.pulses > s1.target_edges

\* handle_edge_locked, line 210, on the state after the edge
EdgeReachesTarget(s1) ==
    s1.mode = TERPS_MODE_RECIP /\ s1.pulses >= s1.target_edges

\* an emitter without the pulses == 0 test (a fault C1 must see)
EmitsResultWithoutPulses(s) == s.window_open

\* an emitter that discards every window (a fault C15 must see)
EmitsResultNever(s) == FALSE

\* enqueue_result_locked, lines 92-109: whether a result is built
EmitsResult(s) ==
    /\ s.window_open
    /\ s.pulses # 0
    /\ EmitEndUs(s.start_us, s.end_us) - s.start_us # 0

\* an estimate corrected with the configured ppm, not the one in the state
\* (a fault C22 must see)
AfterEstimateConfigPpm(s) ==
    LET end_us == EmitEndUs(s.start_us, s.end_us)
        freq_hz == ApplyPpm(RawFreq(s.pulses, end_us - s.start_us),
                            CfgTimebasePpm)
    IN  [s EXCEPT !.freq_estimate_hz = freq_hz,
                  !.min_interval_us = MinIntervalUs(freq_hz, s.min_interval_frac)]

\* enqueue_result_locked, lines 111-114: the estimate and the deadband
AfterEstimate(s) ==
    LET end_us == EmitEndUs(s.start_us, s.end_us)
        freq_hz == ApplyPpm(RawFreq(s.pulses, end_us - s.start_us),
                            s.timebase_ppm)
    IN  [s EXCEPT !.freq_estimate_hz = freq_hz,
                  !.min_interval_us = MinIntervalUs(freq_hz, s.min_interval_frac)]

\* enqueue_result_locked, lines 116-129: the freq_result_t
FreqResultOf(s, timeout_flag, seq) ==
    LET end_us == EmitEndUs(s.start_us, s.end_us)
        s1 == AfterEstimate(s)
    IN  [mode |-> s.mode, pulses |-> s.pulses, raw_pulses |-> s.raw_edges,
         min_interval_us |-> s1.min_interval_us,
         tau_ms |-> ObservedTauMs(end_us - s.start_us),
         start_us |-> s.start_us, end_us |-> end_us,
         f_hz_x1e4 |-> Int32OfX1e4(s1.freq_estimate_hz),
         f_hz |-> s1.freq_estimate_hz,
         glitch_count |-> s.glitch_count, sync_active |-> s.sync_forced,
         timeout |-> timeout_flag, seq |-> seq]


(***************************************************************************)
(* edge_counter.cpp: the handlers.                                         *)
(*                                                                         *)
(* g_lock is a critical section: on core 0 it also masks the interrupts,   *)
(* so the handlers and the main loop of core 0 never interleave with each  *)
(* other, and a section is one step.  Two things are finer than that:      *)
(*  - enqueue_result_locked's try_add / try_remove / try_add on a full     *)
(*    queue are three steps (epc), since the worker's queue_remove on      *)
(*    core 1 takes no g_lock and may run between them;                     *)
(*  - core 1 is inside the critical section of freq_counter_start_window   *)
(*    from WorkerLock to WorkerRearm (wpc = "locked"); a handler of core 0 *)
(*    that arrives meanwhile spins on g_lock (irq) and runs after it.      *)
(***************************************************************************)
Core0Free == irq.kind = "none" /\ epc = "idle"

\* core 0 is inside the critical section: enqueue_result_locked has begun
\* and not returned
Core0Inside == epc # "idle"

\* core 1 is inside the critical section (freq_counter_start_window, lines
\* 297-301)
Core1Inside == wpc = "locked"

\* sync, stop and the jump of the clock to the gate deadline come before
\* the first edge of a window or after the last of a short one
Undisturbed ==
    /\ g_state.raw_edges \in {0, MaxShortEdges}
    /\ emitted < MaxResults

\* enqueue_result_locked
EnqueueResultLocked(s, al, timeout_flag) ==
    IF ~EmitsResult(s)
    THEN /\ g_state' = reset_state_locked(s)
         /\ alarms' = AlarmsAfterReset(s, al)
         /\ UNCHANGED <<freq_queue, epc, e_result, emitted>>
    ELSE LET s1 == AfterEstimate(s)
             r == FreqResultOf(s, timeout_flag, emitted + 1)
         IN  /\ emitted' = emitted + 1
             /\ IF QueueTryAdd(freq_queue, FreqDepth, r) # freq_queue
                THEN /\ freq_queue' = QueueTryAdd(freq_queue, FreqDepth, r)
                     /\ g_state' = reset_state_locked(s1)
                     /\ alarms' = AlarmsAfterReset(s1, al)
                     /\ UNCHANGED <<epc, e_result>>
                ELSE /\ epc' = "drop"
                     /\ e_result' = r
                     /\ g_state' = s1
                     /\ alarms' = al
                     /\ UNCHANGED freq_queue

\* enqueue_result_locked, line 133: queue_try_remove after a failed try_add
EnqDrop ==
    /\ epc = "drop"
    /\ freq_queue' = QueueTryRemove(freq_queue)
    /\ epc' = "readd"
    /\ UNCHANGED <<now, cfg_mode, cfg_tau_ms, g_state, alarms, e_result, irq, started,
                   burst_left, sync_level, sync_left, stop_left, emitted, win_by_sync, plVars, ppsVars,
                   auxVars>>

\* enqueue_result_locked, lines 134-136: the second try_add, then the reset
EnqReadd ==
    /\ epc = "readd"
    /\ freq_queue' = QueueTryAdd(freq_queue, FreqDepth, e_result)
    /\ g_state' = reset_state_locked(g_state)
    /\ alarms' = AlarmsAfterReset(g_state, alarms)
    /\ epc' = "idle"
    /\ e_result' = NoResult
    /\ win_by_sync' = FALSE
    /\ UNCHANGED <<now, cfg_mode, cfg_tau_ms, irq, started, burst_left, sync_level, sync_left, stop_left, emitted,
                   plVars, ppsVars, auxVars>>

\* gpio_callback, freq pin: handle_edge_locked(now)
EdgeBody(ts, al) ==
    LET s1 == handle_edge_locked(g_state, ts)
    IN  IF EdgeAccepted(g_state, ts) /\ EdgeReachesTarget(s1)
        THEN EnqueueResultLocked(s1, al, FALSE)
        ELSE /\ g_state' = s1
             /\ alarms' = al
             /\ UNCHANGED <<freq_queue, epc, e_result, emitted>>

\* gpio_callback, sync pin: handle_sync_locked(level_high)
SyncBody(level_high, al) ==
    IF level_high
    THEN LET s0 == [g_state EXCEPT !.sync_forced = TRUE]
             id == NewAlarmId(al, s0)
         IN  /\ g_state' = start_window_locked(s0, s0.mode, s0.tau_ms, now, id)
             /\ alarms' = AlarmsAfterStart(s0, al, s0.mode, s0.tau_ms, now, id)
             /\ UNCHANGED <<freq_queue, epc, e_result, emitted>>
    ELSE IF ~g_state.active
         THEN /\ alarms' = al
              /\ UNCHANGED <<g_state, freq_queue, epc, e_result, emitted>>
         ELSE EnqueueResultLocked([g_state EXCEPT !.end_us = now], al, FALSE)

\* gate_alarm_cb
AlarmBody(al) ==
    IF g_state.active /\ g_state.mode = TERPS_MODE_GATED
    THEN EnqueueResultLocked([g_state EXCEPT !.end_us = now], al, TRUE)
    ELSE /\ alarms' = al
         /\ UNCHANGED <<g_state, freq_queue, epc, e_result, emitted>>

\* the window a handler leaves armed is the sync-begun one it found or made
SyncGhost(begun) ==
    win_by_sync' = IF g_state'.active THEN (begun \/ win_by_sync) ELSE FALSE

\* the gaps after which the input delivers its next edge: none (the same
\* microsecond), the regular spacing, or the deadband when that is longer
EdgeGaps == {0, EdgeGapUs, Max(EdgeGapUs, g_state.min_interval_us)}

\* the input delivers an edge d microseconds after the previous event: the
\* clock advances only while a window is armed, never past the deadline of
\* a live alarm (a due alarm fires first), and not beyond the bounds
EdgeArrives(d) ==
    /\ emitted < MaxResults
    /\ g_state.raw_edges < MaxRawEdges
    /\ g_state.raw_edges >= MaxShortEdges
          => /\ g_state.mode = TERPS_MODE_RECIP
             /\ g_state.target_edges <= MaxRawEdges
             /\ g_state.raw_edges = MaxShortEdges => burst_left > 0
    /\ d > 0 => /\ g_state.active
                /\ now + d <= MaxNow
                /\ \A a \in alarms : now + d <= a.deadline
    /\ (/\ g_state.active
        /\ g_state.last_edge_us # 0
        /\ (now + d) - g_state.last_edge_us < g_state.min_interval_us)
          => g_state.glitch_count < MaxGlitches
    /\ burst_left' = IF g_state.active /\ g_state.raw_edges = MaxShortEdges
                     THEN burst_left - 1 ELSE burst_left

\* GPIO interrupt, freq pin
GpioEdge(d) ==
    /\ Core0Free
    /\ ~Core1Inside
    /\ EdgeArrives(d)
    /\ now' = now + d
    /\ EdgeBody(now + d, alarms)
    /\ SyncGhost(FALSE)
    /\ UNCHANGED <<cfg_mode, cfg_tau_ms, irq, started, sync_level, sync_left, stop_left,
                   plVars, ppsVars, auxVars>>

\* GPIO interrupt, sync pin
GpioSync(level_high) ==
    /\ Core0Free
    /\ ~Core1Inside
    /\ sync_left > 0
    /\ level_high # sync_level
    /\ Undisturbed
    /\ sync_left' = sync_left - 1
    /\ sync_level' = level_high
    /\ SyncBody(level_high, alarms)
    /\ SyncGhost(level_high)
    /\ UNCHANGED <<now, cfg_mode, cfg_tau_ms, irq, started, burst_left, stop_left, plVars,
                   ppsVars, auxVars>>

\* the clock reaches the deadline of a live alarm
AdvanceToAlarm ==
    /\ Core0Free
    /\ Undisturbed
    /\ \E a \in alarms :
          /\ a.deadline > now
          /\ a.deadline <= MaxNow
          /\ now' = a.deadline
    /\ UNCHANGED <<ecVars, plVars, ppsVars, auxVars>>

\* the input signal pauses once, for LongGapUs, inside an open window that
\* no alarm will end; the edges after the pause come at once
QuietGap ==
    /\ Core0Free
    /\ Undisturbed
    /\ g_state.active
    /\ g_state.pulses >= 1
    /\ alarms = {}
    /\ now <= MaxNow
    /\ now' = now + LongGapUs
    /\ UNCHANGED <<ecVars, plVars, ppsVars, auxVars>>

\* the steady signal: an edge every S1EdgeGapUs; the first edge of a window
\* comes one or two spacings after the last edge of the window before (the
\* worker re-arms within two spacings)
S1Gaps == {S1EdgeGapUs, 2 * S1EdgeGapUs}

\* GPIO interrupt, freq pin, in the steady-signal scenario
S1Edge(d) ==
    /\ Core0Free
    /\ ~Core1Inside
    /\ g_state.active
    /\ d > S1EdgeGapUs => g_state.raw_edges = 0
    /\ now + d <= S1MaxNow
    /\ now' = now + d
    /\ EdgeBody(now + d, alarms)
    /\ SyncGhost(FALSE)
    /\ UNCHANGED <<cfg_mode, cfg_tau_ms, irq, started, burst_left, sync_level,
                   sync_left, stop_left, plVars, ppsVars, auxVars>>

\* timer interrupt: a due alarm fires and gate_alarm_cb runs
AlarmIrq ==
    /\ Core0Free
    /\ ~Core1Inside
    /\ \E a \in alarms :
          /\ now >= a.deadline
          /\ AlarmBody(alarms \ {a})
    /\ SyncGhost(FALSE)
    /\ UNCHANGED <<now, cfg_mode, cfg_tau_ms, irq, started, burst_left, sync_level, sync_left, stop_left,
                   plVars, ppsVars, auxVars>>

\* a start_window that recomputes the deadband from the configured fraction
\* (a fault C33 must see)
FreqCounterStartWindowRecomputes(mode, tau_ms) ==
    LET tau == IF tau_ms = 0 THEN cfg_tau_ms ELSE tau_ms
        s0 == [g_state EXCEPT
                  !.min_interval_frac = CfgMinIntervalPct,
                  !.timebase_ppm = CfgTimebasePpm,
                  !.min_interval_us =
                      MinIntervalUs(g_state.freq_estimate_hz, CfgMinIntervalPct)]
        id == NewAlarmId(alarms, s0)
    IN  /\ g_state' = start_window_locked(s0, mode, tau, now, id)
        /\ alarms' = AlarmsAfterStart(s0, alarms, mode, tau, now, id)
        /\ win_by_sync' = FALSE

\* freq_counter_start_window
FreqCounterStartWindow(mode, tau_ms) ==
    LET tau == IF tau_ms = 0 THEN cfg_tau_ms ELSE tau_ms
        s0 == [g_state EXCEPT !.min_interval_frac = CfgMinIntervalPct,
                              !.timebase_ppm = CfgTimebasePpm]
        id == NewAlarmId(alarms, s0)
    IN  /\ g_state' = start_window_locked(s0, mode, tau, now, id)
        /\ alarms' = AlarmsAfterStart(s0, alarms, mode, tau, now, id)
        /\ win_by_sync' = FALSE

\* main(), line 105
MainStartWindow ==
    /\ Core0Free
    /\ ~Core1Inside
    /\ ~started
    /\ started' = TRUE
    /\ FreqCounterStartWindow(cfg_mode, cfg_tau_ms)
    /\ UNCHANGED <<now, cfg_mode, cfg_tau_ms, freq_queue, epc, e_result, irq, burst_left, sync_level, sync_left,
                   stop_left, emitted, plVars, ppsVars, auxVars>>

\* min_interval_frac as the host sets it, in percent: not positive (taken
\* as the default), and a half
SetMinFracs == {0, 50}

\* freq_counter_set_min_interval
SetMinInterval(frac_pct) ==
    /\ Core0Free
    /\ ~Core1Inside
    /\ setmin_left > 0
    /\ Undisturbed
    /\ setmin_left' = setmin_left - 1
    /\ g_state' = [g_state EXCEPT
                      !.min_interval_frac = frac_pct,
                      !.min_interval_us =
                          MinIntervalUs(g_state.freq_estimate_hz, frac_pct)]
    /\ UNCHANGED <<now, cfg_mode, cfg_tau_ms, alarms, freq_queue, epc,
                   e_result, irq, started, burst_left, sync_level, sync_left,
                   stop_left, emitted, win_by_sync, plVars, ppsVars, cdc_out,
                   usb_fail_left, twin_lo, twin_hi>>

\* a freq_counter_stop that resets without emitting (a fault C14 must see)
StopResetOnly ==
    /\ Core0Free
    /\ ~Core1Inside
    /\ stop_left > 0
    /\ Undisturbed
    /\ stop_left' = stop_left - 1
    /\ g_state' = reset_state_locked(g_state)
    /\ alarms' = AlarmsAfterReset(g_state, alarms)
    /\ SyncGhost(FALSE)
    /\ UNCHANGED <<now, cfg_mode, cfg_tau_ms, freq_queue, epc, e_result, emitted, irq,
                   started, burst_left, sync_level, sync_left, plVars, ppsVars,
                   auxVars>>

\* freq_counter_stop: enqueue_result_locked(true), then reset_state_locked,
\* which changes nothing more
Stop ==
    /\ Core0Free
    /\ ~Core1Inside
    /\ stop_left > 0
    /\ Undisturbed
    /\ stop_left' = stop_left - 1
    /\ EnqueueResultLocked(g_state, alarms, TRUE)
    /\ SyncGhost(FALSE)
    /\ UNCHANGED <<now, cfg_mode, cfg_tau_ms, irq, started, burst_left, sync_level, sync_left, plVars, ppsVars,
                   auxVars>>

(***************************************************************************)
(* A handler of core 0 that finds g_lock held by core 1, which holds it    *)
(* only inside freq_counter_start_window (wpc = "locked").                 *)
(***************************************************************************)
\* gpio_callback, lines 231-232: now is read, then the lock is waited for
GpioEdgeBlocked(d) ==
    /\ Core0Free
    /\ Core1Inside
    /\ EdgeArrives(d)
    /\ now' = now + d
    /\ irq' = [kind |-> "edge", ts |-> now + d, high |-> FALSE]
    /\ UNCHANGED <<cfg_mode, cfg_tau_ms, g_state, alarms, freq_queue, epc, e_result,
                   started, sync_level, sync_left, stop_left, emitted,
                   win_by_sync, plVars, ppsVars, auxVars>>

GpioSyncBlocked(level_high) ==
    /\ Core0Free
    /\ Core1Inside
    /\ sync_left > 0
    /\ level_high # sync_level
    /\ Undisturbed
    /\ sync_left' = sync_left - 1
    /\ sync_level' = level_high
    /\ irq' = [kind |-> "sync", ts |-> now, high |-> level_high]
    /\ UNCHANGED <<now, cfg_mode, cfg_tau_ms, g_state, alarms, freq_queue, epc, e_result,
                   started, burst_left, stop_left, emitted, win_by_sync,
                   plVars, ppsVars, auxVars>>

\* gate_alarm_cb, line 154: the alarm has fired, the callback waits
AlarmIrqBlocked ==
    /\ Core0Free
    /\ Core1Inside
    /\ \E a \in alarms :
          /\ now >= a.deadline
          /\ alarms' = alarms \ {a}
    /\ irq' = [kind |-> "alarm", ts |-> now, high |-> FALSE]
    /\ UNCHANGED <<now, cfg_mode, cfg_tau_ms, g_state, freq_queue, epc, e_result,
                   started, burst_left, sync_level, sync_left, stop_left, emitted, win_by_sync,
                   plVars, ppsVars, auxVars>>

\* a microsecond passes while the handler spins
SpinTick ==
    /\ irq.kind # "none"
    /\ Core1Inside
    /\ now = irq.ts
    /\ now + 1 <= MaxNow
    /\ now' = now + 1
    /\ UNCHANGED <<ecVars, plVars, ppsVars, auxVars>>

\* core 1 has left the critical section: the handler runs
IrqResume ==
    /\ irq.kind # "none"
    /\ ~Core1Inside
    /\ irq' = NoIrq
    /\ IF irq.kind = "edge" THEN EdgeBody(irq.ts, alarms)
       ELSE IF irq.kind = "sync" THEN SyncBody(irq.high, alarms)
       ELSE AlarmBody(alarms)
    /\ SyncGhost(irq.kind = "sync" /\ irq.high)
    /\ UNCHANGED <<now, cfg_mode, cfg_tau_ms, started, burst_left, sync_level, sync_left, stop_left,
                   plVars, ppsVars, auxVars>>


(***************************************************************************)
(* main.cpp: the worker on core 1 and the frame drain of the main loop.    *)
(***************************************************************************)
AdcSampleUv == 7

\* ads1220_read_uV: what a call can return
AdcOutcomes ==
    {[ok |-> TRUE, uV |-> AdcSampleUv, flags |-> {}],
     [ok |-> FALSE, uV |-> 0, flags |-> {TERPS_FLAG_ADC_TIMEOUT}]}

\* (int16_t) of a long
Int16(v) == ((v + 32768) % 65536) - 32768

\* a frame that carries what the failed read left, not the cached reading
\* (a fault C16 must see)
FrameOfFailedRead(freq, adc, last_uV, locked, ppm) ==
    [ts_ms |-> freq.end_us \div 1000,
     f_hz_x1e4 |-> freq.f_hz_x1e4,
     tau_ms |-> freq.tau_ms % 65536,
     f_hz |-> freq.f_hz,
     mode |-> freq.mode,
     diode_uV |-> adc.uV,
     adc_gain |-> CfgAdcGain,
     flags |-> (IF freq.sync_active THEN {TERPS_FLAG_SYNC_ACTIVE} ELSE {})
               \cup adc.flags
               \cup (IF locked THEN {TERPS_FLAG_PPS_LOCKED} ELSE {}),
     ppm_corr |-> ppm,
     ppm_corr_x1e2 |-> Int16(ppm),
     seq |-> freq.seq]

\* process_frequency_result, lines 136-168: the frame
FrameOf(freq, adc, last_uV, locked, ppm) ==
    [ts_ms |-> freq.end_us \div 1000,
     f_hz_x1e4 |-> freq.f_hz_x1e4,
     tau_ms |-> freq.tau_ms % 65536,
     f_hz |-> freq.f_hz,
     mode |-> freq.mode,
     diode_uV |-> IF adc.ok THEN adc.uV ELSE last_uV,
     adc_gain |-> CfgAdcGain,
     flags |-> (IF freq.sync_active THEN {TERPS_FLAG_SYNC_ACTIVE} ELSE {})
               \cup adc.flags
               \cup (IF locked THEN {TERPS_FLAG_PPS_LOCKED} ELSE {}),
     ppm_corr |-> ppm,
     ppm_corr_x1e2 |-> Int16(ppm),
     seq |-> freq.seq]

\* the seq of the last FrameDepth frames enqueued, after one more
LastPushed(log, seq) ==
    LET all == Append(log, seq)
    IN  IF Len(all) > FrameDepth THEN Tail(all) ELSE all

\* core1_main, line 129: queue_remove_blocking
WorkerDequeue ==
    /\ wpc = "wait"
    /\ freq_queue # << >>
    /\ w_freq' = Head(freq_queue)
    /\ freq_queue' = Tail(freq_queue)
    /\ wpc' = "process"
    /\ UNCHANGED <<now, cfg_mode, cfg_tau_ms, g_state, alarms, epc, e_result, irq, started,
                   burst_left, sync_level, sync_left, stop_left, emitted, win_by_sync, w_frame,
                   g_last_diode_uV, g_frame_queue, adc_fail_left, pushed_log,
                   sent_last, ppsVars, auxVars>>

\* process_frequency_result, lines 136-178: ADC read, frame, first try_add
WorkerProcess(adc) ==
    /\ wpc = "process"
    /\ ~adc.ok => adc_fail_left > 0
    /\ adc_fail_left' = IF adc.ok THEN adc_fail_left ELSE adc_fail_left - 1
    /\ LET frame == FrameOf(w_freq, adc, g_last_diode_uV, g_locked,
                            g_correction_ppm)
       IN  /\ g_last_diode_uV' = IF adc.ok THEN adc.uV ELSE g_last_diode_uV
           /\ IF QueueTryAdd(g_frame_queue, FrameDepth, frame) # g_frame_queue
              THEN /\ g_frame_queue' = QueueTryAdd(g_frame_queue, FrameDepth, frame)
                   /\ pushed_log' = LastPushed(pushed_log, frame.seq)
                   /\ wpc' = "rearm"
                   /\ UNCHANGED w_frame
              ELSE /\ w_frame' = frame
                   /\ wpc' = "drop"
                   /\ UNCHANGED <<g_frame_queue, pushed_log>>
    /\ UNCHANGED <<now, ecVars, w_freq, sent_last, ppsVars, auxVars>>

\* process_frequency_result, line 180: queue_try_remove
WorkerDrop ==
    /\ wpc = "drop"
    /\ g_frame_queue' = QueueTryRemove(g_frame_queue)
    /\ wpc' = "readd"
    /\ UNCHANGED <<now, ecVars, w_freq, w_frame, g_last_diode_uV,
                   adc_fail_left, pushed_log, sent_last, ppsVars, auxVars>>

\* process_frequency_result, line 181: the second queue_try_add
WorkerReadd ==
    /\ wpc = "readd"
    /\ g_frame_queue' = QueueTryAdd(g_frame_queue, FrameDepth, w_frame)
    /\ pushed_log' = LastPushed(pushed_log, w_frame.seq)
    /\ wpc' = "rearm"
    /\ UNCHANGED <<now, ecVars, w_freq, w_frame, g_last_diode_uV,
                   adc_fail_left, sent_last, ppsVars, auxVars>>

\* a core 1 that enters the section without waiting for core 0 to leave it
\* (a fault C23 must see)
WorkerLockNoWait ==
    /\ wpc = "rearm"
    /\ wpc' = "locked"
    /\ UNCHANGED <<now, ecVars, w_freq, w_frame, g_last_diode_uV,
                   g_frame_queue, adc_fail_left, pushed_log, sent_last,
                   ppsVars, auxVars>>

\* freq_counter_start_window, line 297: critical_section_enter_blocking on
\* core 1 returns once core 0 is not inside
WorkerLock ==
    /\ wpc = "rearm"
    /\ ~Core0Inside
    /\ wpc' = "locked"
    /\ UNCHANGED <<now, ecVars, w_freq, w_frame, g_last_diode_uV,
                   g_frame_queue, adc_fail_left, pushed_log, sent_last,
                   ppsVars, auxVars>>

\* process_frequency_result, line 184: freq_counter_start_window, lines
\* 298-301
WorkerRearm ==
    /\ Core1Inside
    /\ FreqCounterStartWindow(cfg_mode, cfg_tau_ms)
    /\ wpc' = "wait"
    /\ UNCHANGED <<now, cfg_mode, cfg_tau_ms, freq_queue, epc, e_result, irq, started,
                   burst_left, sync_level, sync_left, stop_left, emitted, w_freq, w_frame,
                   g_last_diode_uV, g_frame_queue, adc_fail_left, pushed_log,
                   sent_last, ppsVars, auxVars>>

\* usb_cdc_send_frame: the link is up and has room in time; cdc_wait_ready
\* gives up (line 76); ensure_write_capacity gives up (lines 103, 131)
SendOutcomes == {"sent", "not_ready", "no_capacity"}

\* the CDC link before the first send
NoneWritten == [seq |-> 0, ok |-> TRUE, dropped |-> 0]

\* a send that writes the header of a frame before it finds no room (a
\* fault C24 must see)
CdcAfterSendPartial(out, frame, outcome) ==
    [seq |-> IF outcome = "not_ready" THEN out.seq ELSE frame.seq,
     ok |-> outcome = "sent",
     dropped |-> IF outcome = "sent" THEN out.dropped ELSE frame.seq]

\* usb_cdc_send_frame: the last frame written by tud_cdc_write, the value
\* returned, and the last frame that was not written
CdcAfterSend(out, frame, outcome) ==
    [seq |-> IF outcome = "sent" THEN frame.seq ELSE out.seq,
     ok |-> outcome = "sent",
     dropped |-> IF outcome = "sent" THEN out.dropped ELSE frame.seq]

\* main(), lines 111-114: queue_try_remove, usb_cdc_send_frame
MainSendFrame(outcome) ==
    /\ Core0Free
    /\ g_frame_queue # << >>
    /\ outcome # "sent" => usb_fail_left > 0
    /\ usb_fail_left' = IF outcome = "sent" THEN usb_fail_left
                        ELSE usb_fail_left - 1
    /\ sent_last' = Head(g_frame_queue).seq
    /\ cdc_out' = CdcAfterSend(cdc_out, Head(g_frame_queue), outcome)
    /\ g_frame_queue' = QueueTryRemove(g_frame_queue)
    /\ UNCHANGED <<now, ecVars, wpc, w_freq, w_frame, g_last_diode_uV,
                   adc_fail_left, pushed_log, ppsVars, setmin_left, twin_lo,
                   twin_hi>>

\* main(), lines 111-114, whatever the link does
MainSend == \E outcome \in SendOutcomes : MainSendFrame(outcome)

(***************************************************************************)
(* pps_cal.cpp.  Frequencies aside, one microsecond of a 1 s interval is   *)
(* one ppm, so error_ppm is the interval minus 1 000 000, an integer; the  *)
(* correction is kept in hundredths of a ppm.                              *)
(*                                                                         *)
(* pps_cal_on_pps_edge runs in the GPIO interrupt of core 0, under g_lock. *)
(* pps_cal_tick runs in the main loop of core 0 with no lock and with the  *)
(* interrupts on, so the interrupt can run between any two of its steps:   *)
(* the read of the clock (tpc = "check"), the comparison, and the three    *)
(* stores of the reset.  The three variables are plain statics, so the     *)
(* build may emit the stores in any order (tick_pending).                  *)
(***************************************************************************)
\* pps_cal_on_pps_edge, lines 42-43
ErrorPpm(interval) == interval - PPS_EXPECTED_INTERVAL_US

Abs(x) == IF x < 0 THEN -x ELSE x

\* n / d rounded to the nearest, halves away from zero
RoundDiv(n, d) ==
    IF n >= 0 THEN ((2 * n) + d) \div (2 * d)
    ELSE -(((2 * (-n)) + d) \div (2 * d))

\* pps_cal_on_pps_edge, line 44: 0.8 * correction - 0.2 * error, in
\* hundredths of a ppm
CorrectionAfter(correction_x100, error_ppm) ==
    RoundDiv((4 * correction_x100) - (100 * error_ppm), 5)

\* a threshold test with <= for < (a fault C10 must see)
IsGoodIntervalInclusive(error_ppm) == Abs(error_ppm) <= PPS_LOCK_THRESHOLD_PPM

\* pps_cal_on_pps_edge, line 47
IsGoodInterval(error_ppm) == Abs(error_ppm) < PPS_LOCK_THRESHOLD_PPM

\* a counter that is cleared, not decremented (a fault C9 must see)
LockCounterClearedOnBad(counter, error_ppm) ==
    IF IsGoodInterval(error_ppm)
    THEN (IF counter < PPS_LOCK_COUNTER_MAX THEN counter + 1 ELSE counter)
    ELSE 0

\* pps_cal_on_pps_edge, lines 47-55
LockCounterAfter(counter, error_ppm) ==
    IF IsGoodInterval(error_ppm)
    THEN (IF counter < PPS_LOCK_COUNTER_MAX THEN counter + 1 ELSE counter)
    ELSE (IF counter > 0 THEN counter - 1 ELSE counter)

\* a lock level with > for >= (a fault C8 must see)
LockedOfAbove(counter) == counter > PPS_LOCK_LEVEL

\* pps_cal_on_pps_edge, line 56
LockedOf(counter) == counter >= PPS_LOCK_LEVEL

\* pps_cal_tick, line 64: now - g_last_tick_us > PPS_TIMEOUT_US on uint64_t;
\* a g_last_tick_us later than now wraps to a huge difference
TickTimedOut(t_now, last_tick_us) ==
    \/ t_now < last_tick_us
    \/ t_now - last_tick_us > PPS_TIMEOUT_US

\* the time from one PPS edge to the next: in lock by a few ppm, off by
\* exactly the threshold, exactly the timeout, and past the timeout
PpsGaps ==
    {PPS_EXPECTED_INTERVAL_US + PpsDriftUs,
     PPS_EXPECTED_INTERVAL_US - PPS_LOCK_THRESHOLD_PPM,
     PPS_TIMEOUT_US,
     PPS_TIMEOUT_US + 1}

\* time passes until the next PPS edge is due (the first one is due at boot)
PpsElapse(d) ==
    /\ tpc = "idle"
    /\ now = g_last_edge_us
    /\ now + d <= MaxPpsNow
    /\ now' = now + d
    /\ UNCHANGED <<ecVars, plVars, ppsVars, auxVars>>

\* a microsecond passes between pps_cal_tick's lines 63 and 64
TickSlip ==
    /\ tpc = "check"
    /\ now = tick_now
    /\ slip_left > 0
    /\ slip_left' = slip_left - 1
    /\ now' = now + 1
    /\ UNCHANGED <<ecVars, plVars, g_last_edge_us, g_last_tick_us,
                   g_correction_ppm, g_locked, g_lock_counter, tpc, tick_now,
                   tick_pending, pps_hist, pps_base, auxVars>>

\* gpio_callback, PPS pin: pps_cal_on_pps_edge(now)
PpsEdge ==
    /\ Core0Free
    /\ ~Core1Inside
    /\ g_last_edge_us < now
    /\ IF g_last_edge_us # 0
       THEN LET error_ppm == ErrorPpm(now - g_last_edge_us)
                counter == LockCounterAfter(g_lock_counter, error_ppm)
            IN  /\ g_correction_ppm' = CorrectionAfter(g_correction_ppm, error_ppm)
                /\ g_last_tick_us' = now
                /\ g_lock_counter' = counter
                /\ g_locked' = LockedOf(counter)
                /\ pps_hist' = Append(pps_hist, error_ppm)
       ELSE UNCHANGED <<g_correction_ppm, g_last_tick_us, g_lock_counter,
                        g_locked, pps_hist>>
    /\ g_last_edge_us' = now
    /\ UNCHANGED <<now, ecVars, plVars, tpc, tick_now, slip_left, tick_pending,
                   pps_base, auxVars>>

\* pps_cal_tick, line 63
TickBegin ==
    /\ Core0Free
    /\ tpc = "idle"
    /\ tpc' = "check"
    /\ tick_now' = now
    /\ UNCHANGED <<now, ecVars, plVars, g_last_edge_us, g_last_tick_us,
                   g_correction_ppm, g_locked, g_lock_counter, slip_left,
                   tick_pending, pps_hist, pps_base, auxVars>>

\* pps_cal_tick, line 64
TickCheck ==
    /\ Core0Free
    /\ tpc = "check"
    /\ IF TickTimedOut(tick_now, g_last_tick_us)
       THEN tpc' = "store" /\ tick_pending' = {"locked", "correction", "counter"}
       ELSE tpc' = "feed" /\ UNCHANGED tick_pending
    /\ UNCHANGED <<now, ecVars, plVars, g_last_edge_us, g_last_tick_us,
                   g_correction_ppm, g_locked, g_lock_counter, tick_now,
                   slip_left, pps_hist, pps_base, auxVars>>

\* pps_cal_tick, lines 65-67: one of the stores
TickStore(f) ==
    /\ Core0Free
    /\ tpc = "store"
    /\ f \in tick_pending
    /\ tick_pending' = tick_pending \ {f}
    /\ tpc' = IF tick_pending = {f} THEN "feed" ELSE "store"
    /\ g_locked' = IF f = "locked" THEN FALSE ELSE g_locked
    /\ g_correction_ppm' = IF f = "correction" THEN 0 ELSE g_correction_ppm
    /\ g_lock_counter' = IF f = "counter" THEN 0 ELSE g_lock_counter
    /\ pps_hist' = << >>
    /\ pps_base' = g_lock_counter'
    /\ UNCHANGED <<now, ecVars, plVars, g_last_edge_us, g_last_tick_us,
                   tick_now, slip_left, auxVars>>

\* feed_pps_correction, lines 79-80: freq_counter_update_timebase_ppm
FeedTimebase ==
    /\ Core0Free
    /\ ~Core1Inside
    /\ tpc = "feed"
    /\ tpc' = "idle"
    /\ g_state' = [g_state EXCEPT !.timebase_ppm = g_correction_ppm]
    /\ UNCHANGED <<now, cfg_mode, cfg_tau_ms, alarms, freq_queue, epc, e_result, irq,
                   started, burst_left, sync_level, sync_left, stop_left,
                   emitted, win_by_sync, plVars, g_last_edge_us,
                   g_last_tick_us, g_correction_ppm, g_locked, g_lock_counter,
                   tick_now, slip_left, tick_pending, pps_hist, pps_base,
                   auxVars>>

(***************************************************************************)
(* The specifications.                                                     *)
(***************************************************************************)
PpsInitVars ==
    /\ g_last_edge_us = 0
    /\ g_last_tick_us = BootUs
    /\ g_correction_ppm = 0
    /\ g_locked = FALSE
    /\ g_lock_counter = 0
    /\ tpc = "idle"
    /\ tick_now = 0
    /\ slip_left = MaxSlips
    /\ tick_pending = {}
    /\ pps_hist = << >>
    /\ pps_base = 0

\* main() up to line 104, given g_config.tau_ms
InitAfterConfig ==
    /\ now = BootUs
    /\ cfg_mode \in Modes
    /\ g_state = InitState
    /\ alarms = {}
    /\ freq_queue = << >>
    /\ epc = "idle"
    /\ e_result = NoResult
    /\ irq = NoIrq
    /\ started = FALSE
    /\ \E b \in Budgets :
          /\ sync_left = b.sync
          /\ stop_left = b.stop
          /\ burst_left = b.burst
          /\ adc_fail_left = b.adc
          /\ usb_fail_left = b.usb
          /\ setmin_left = b.setmin
    /\ sync_level = FALSE
    /\ emitted = 0
    /\ win_by_sync = FALSE
    /\ wpc = "wait"
    /\ w_freq = NoResult
    /\ w_frame = NoFrame
    /\ g_last_diode_uV = 0
    /\ g_frame_queue = << >>
    /\ pushed_log = << >>
    /\ sent_last = 0
    /\ PpsInitVars
    /\ cdc_out = NoneWritten

\* no twin runs: both copies stay as freq_counter_init leaves the state
NoTwin == twin_lo = InitState /\ twin_hi = InitState

Init ==
    /\ cfg_tau_ms = TauMs
    /\ InitAfterConfig
    /\ NoTwin

Worker ==
    \/ WorkerDequeue
    \/ \E adc \in AdcOutcomes : WorkerProcess(adc)
    \/ WorkerDrop
    \/ WorkerReadd
    \/ WorkerLock
    \/ WorkerRearm

Next ==
    \/ MainStartWindow
    \/ \E d \in EdgeGaps : GpioEdge(d)
    \/ \E h \in BOOLEAN : GpioSync(h)
    \/ AdvanceToAlarm
    \/ QuietGap
    \/ AlarmIrq
    \/ Stop
    \/ \E f \in SetMinFracs : SetMinInterval(f)
    \/ EnqDrop
    \/ EnqReadd
    \/ \E d \in EdgeGaps : GpioEdgeBlocked(d)
    \/ \E h \in BOOLEAN : GpioSyncBlocked(h)
    \/ AlarmIrqBlocked
    \/ SpinTick
    \/ IrqResume
    \/ Worker
    \/ MainSend

Spec == Init /\ [][Next]_vars

\* the scheduling of the firmware: core 1 runs the worker, the main loop of
\* core 0 comes round, interrupts are served and the clock reaches a
\* deadline it is heading for
FairSpec ==
    /\ Spec
    /\ WF_vars(Worker)
    /\ WF_vars(MainStartWindow)
    /\ WF_vars(MainSend)
    /\ WF_vars(AdvanceToAlarm)
    /\ WF_vars(AlarmIrq)
    /\ WF_vars(EnqDrop)
    /\ WF_vars(EnqReadd)
    /\ WF_vars(IrqResume)

\* the steady-signal scenario: Reciprocal mode, tau = 100 ms, the sync pin
\* at rest, no stop, no PPS
S1Init ==
    /\ cfg_tau_ms = S1TauMs
    /\ InitAfterConfig
    /\ NoTwin
    /\ cfg_mode = TERPS_MODE_RECIP
    /\ sync_left = 0
    /\ stop_left = MaxStops

S1Next ==
    \/ MainStartWindow
    \/ \E d \in S1Gaps : S1Edge(d)
    \/ Worker
    \/ MainSend

S1Spec == S1Init /\ [][S1Next]_vars

\* two runs of one Gated window over the same edges: the state after
\* freq_counter_init, with min_interval_frac set, and start_window_locked
TwinWindow(frac_pct) ==
    start_window_locked(
        [InitState EXCEPT
            !.min_interval_frac = frac_pct,
            !.min_interval_us = MinIntervalUs(InitState.freq_estimate_hz,
                                              frac_pct)],
        TERPS_MODE_GATED, cfg_tau_ms, BootUs, 1)

\* min_interval_frac of the twin runs, in percent
TwinFracs == {10, 25, 50, 75}

\* the time from one edge of the twin runs to the next
TwinGaps == {0, 1, 5, 10, 20}

\* an edge arrives d microseconds after the one before: handle_edge_locked
\* in both runs, with the same timestamp
TwinEdge(d) ==
    /\ twin_lo.raw_edges < MaxTwinEdges
    /\ now' = now + d
    /\ twin_lo' = handle_edge_locked(twin_lo, now + d)
    /\ twin_hi' = handle_edge_locked(twin_hi, now + d)
    /\ UNCHANGED <<ecVars, plVars, ppsVars, cdc_out, usb_fail_left,
                   setmin_left>>

DeglitchInit ==
    /\ cfg_tau_ms = TauMs
    /\ InitAfterConfig
    /\ cfg_mode = TERPS_MODE_GATED
    /\ sync_left = MaxSyncEvents
    /\ \E lo, hi \in TwinFracs :
          /\ lo <= hi
          /\ twin_lo = TwinWindow(lo)
          /\ twin_hi = TwinWindow(hi)

DeglitchNext == \E d \in TwinGaps : TwinEdge(d)

DeglitchSpec == DeglitchInit /\ [][DeglitchNext]_vars

\* the calibrated run: PPS calibration and the whole pipeline together, in
\* Reciprocal mode.  The PPS intervals are one in lock and one with a missed
\* pulse; the sync pin moves only after main() has started the first window
\* (so no Gated window and no alarm exist); a window takes at most
\* MaxShortEdges edges and is ended by the falling edge of the sync pin
CalGaps == {PPS_EXPECTED_INTERVAL_US + PpsDriftUs, LongGapUs}

\* the gaps between the edges of the calibrated run: an edge comes at once,
\* or as the second edge of a window EdgeGapUs after the first
CalEdgeGaps == {0, EdgeGapUs}

\* time passes until a PPS edge is due, d after the last one
CalElapse(d) ==
    /\ Core0Free
    /\ alarms = {}
    /\ g_last_edge_us # 0
    /\ now < g_last_edge_us + d
    /\ g_last_edge_us + d <= MaxCalNow
    /\ now' = g_last_edge_us + d
    /\ UNCHANGED <<ecVars, plVars, ppsVars, auxVars>>

\* a PPS edge is due: the first one at boot, the others after one of CalGaps
CalDue == g_last_edge_us = 0 \/ (now - g_last_edge_us) \in CalGaps

\* GPIO interrupt, freq pin, in the calibrated run
CalEdge(d) ==
    /\ Core0Free
    /\ ~Core1Inside
    /\ g_state.active
    /\ g_state.raw_edges < MaxShortEdges
    /\ d > 0 => g_state.pulses = 1 /\ now = g_state.last_edge_us
    /\ now + d <= MaxCalNow
    /\ now' = now + d
    /\ EdgeBody(now + d, alarms)
    /\ SyncGhost(FALSE)
    /\ UNCHANGED <<cfg_mode, cfg_tau_ms, irq, started, burst_left, sync_level,
                   sync_left, stop_left, plVars, ppsVars, auxVars>>

CalInit ==
    /\ Init
    /\ cfg_mode = TERPS_MODE_RECIP
    /\ sync_left = MaxSyncEvents

CalNext ==
    \/ MainStartWindow
    \/ \E d \in CalGaps : CalElapse(d)
    \/ CalDue /\ PpsEdge
    \/ TickBegin
    \/ TickCheck
    \/ FeedTimebase
    \/ \E d \in CalEdgeGaps : CalEdge(d)
    \/ \E h \in BOOLEAN : started /\ GpioSync(h)
    \/ WorkerDequeue
    \/ \E adc \in AdcOutcomes : WorkerProcess(adc)
    \/ WorkerLock
    \/ WorkerRearm
    \/ MainSend

CalSpec == CalInit /\ [][CalNext]_vars

\* the calibrated run with a host that also calls set_min_interval: the
\* state after main() line 104, the sync pin about to toggle, no stop, no
\* burst, no ADC or USB failure
RestartInit ==
    /\ cfg_tau_ms = TauMs
    /\ cfg_mode = TERPS_MODE_RECIP
    /\ now = BootUs
    /\ g_state = InitState
    /\ alarms = {}
    /\ freq_queue = << >>
    /\ epc = "idle"
    /\ e_result = NoResult
    /\ irq = NoIrq
    /\ started = FALSE
    /\ sync_left = MaxSyncEvents
    /\ stop_left = 0
    /\ burst_left = 0
    /\ adc_fail_left = 0
    /\ usb_fail_left = 0
    /\ setmin_left = MaxSetMins
    /\ sync_level = FALSE
    /\ emitted = 0
    /\ win_by_sync = FALSE
    /\ wpc = "wait"
    /\ w_freq = NoResult
    /\ w_frame = NoFrame
    /\ g_last_diode_uV = 0
    /\ g_frame_queue = << >>
    /\ pushed_log = << >>
    /\ sent_last = 0
    /\ PpsInitVars
    /\ cdc_out = NoneWritten
    /\ NoTwin

\* the PPS intervals are in lock, the edges come in the microsecond of the
\* event before, the frames stay in their queue
RestartNext ==
    \/ MainStartWindow
    \/ CalElapse(PPS_EXPECTED_INTERVAL_US + PpsDriftUs)
    \/ CalDue /\ PpsEdge
    \/ TickBegin
    \/ TickCheck
    \/ FeedTimebase
    \/ CalEdge(0)
    \/ \E h \in BOOLEAN : started /\ GpioSync(h)
    \/ \E f \in SetMinFracs : SetMinInterval(f)
    \/ WorkerDequeue
    \/ \E adc \in AdcOutcomes : WorkerProcess(adc)
    \/ WorkerLock
    \/ WorkerRearm

RestartSpec == RestartInit /\ [][RestartNext]_vars

\* PPS calibration alone: the edge counter is not started
PpsInit ==
    /\ Init
    /\ cfg_mode = TERPS_MODE_RECIP
    /\ sync_left = MaxSyncEvents

PpsNext ==
    \/ \E d \in PpsGaps : PpsElapse(d)
    \/ TickSlip
    \/ PpsEdge
    \/ TickBegin
    \/ TickCheck
    \/ \E f \in {"locked", "correction", "counter"} : TickStore(f)
    \/ FeedTimebase

PpsSpec == PpsInit /\ [][PpsNext]_vars

(***************************************************************************)
(* The properties.                                                         *)
(***************************************************************************)
Last(q) == q[Len(q)]

SeqsOf(q) == [i \in 1..Len(q) |-> q[i].seq]

Increasing(s) == \A i, j \in 1..Len(s) : i < j => s[i] < s[j]

\* the FreqResults that exist: queued, being enqueued, or held by the worker
LiveResults ==
    {freq_queue[i] : i \in 1..Len(freq_queue)}
        \cup (IF epc # "idle" THEN {e_result} ELSE {})
        \cup (IF w_freq.seq # 0 THEN {w_freq} ELSE {})

\* C1: every FreqResult that is placed in freq_queue, whatever ended its
\* window, has start_us < end_us, pulses >= 1 and raw_pulses >= pulses.
C1_EmittedResultsWellFormed ==
    \A r \in LiveResults :
        r.start_us < r.end_us /\ r.pulses >= 1 /\ r.raw_pulses >= r.pulses

\* C1, its case: a result of one pulse whose window ended (by sync falling
\* or stop) in the microsecond it began is queued with end_us = start_us + 1
C1_MinimalWindowQueued ==
    \E i \in 1..Len(freq_queue) :
        /\ freq_queue[i].pulses = 1
        /\ freq_queue[i].end_us = freq_queue[i].start_us + 1

\* C2: under fair scheduling of the worker, the main loop and the alarm,
\* once the first start_window has been issued the edge counter never stays
\* idle forever: whenever active is false, a window is armed again later.
C2_IdleLeadsToRearm == (started /\ ~g_state.active) ~> g_state.active

\* C3: a window begun by a sync rising edge has sync_forced = true for as
\* long as it is active.
C3_SyncWindowIsForced ==
    (g_state.active /\ win_by_sync) => g_state.sync_forced

\* C4: neither queue ever holds more than its depth, and every enqueue
\* completes with the new element in the queue: once the producer is done,
\* the newest result (frame) is the last of its queue, unless the consumer
\* has taken it.
C4_QueuesBoundedNewestIn ==
    /\ Len(freq_queue) <= FreqDepth
    /\ Len(g_frame_queue) <= FrameDepth
    /\ (epc = "idle" /\ emitted > 0)
          => IF freq_queue # << >> THEN Last(freq_queue).seq = emitted
             ELSE w_freq.seq = emitted
    /\ (wpc \in {"rearm", "locked", "wait"} /\ w_freq.seq # 0)
          => IF g_frame_queue # << >>
             THEN Last(g_frame_queue).seq = w_freq.seq
             ELSE sent_last = w_freq.seq

\* C4, its case: with the worker never run, a result was enqueued on a full
\* freq_queue and the enqueue has completed
C4_OverflowEnqueueDone ==
    /\ epc = "idle"
    /\ w_freq.seq = 0
    /\ emitted > FreqDepth
    /\ Len(freq_queue) = FreqDepth

\* C5: with no consumer running, a push onto a full queue removes exactly
\* the oldest element and appends the new one: the queue holds the last N
\* elements pushed, in push order.
C5_DropOldestKeepsLastN ==
    /\ (sent_last = 0 /\ wpc # "readd")
          => SeqsOf(g_frame_queue) = pushed_log
    /\ (w_freq.seq = 0 /\ epc # "readd")
          => LET k == IF epc = "drop" THEN emitted - 1 ELSE emitted
                 n == Min(FreqDepth, k)
             IN  SeqsOf(freq_queue) = [i \in 1..n |-> (k - n) + i]

\* C5, its case: no Frame was ever sent, the worker has pushed a Frame onto
\* the full frame queue and is done with it
C5_FrameOverflowUndrained ==
    /\ sent_last = 0
    /\ wpc = "rearm"
    /\ w_frame.seq # 0
    /\ Len(g_frame_queue) = FrameDepth

\* C6: FreqResults are in freq_queue in the order of their emission, the
\* worker makes exactly one Frame per dequeued FreqResult, and the Frames in
\* frame_queue and at the transport are in the order of their FreqResults,
\* also after drops.
C6_OrderPreserved ==
    /\ Increasing(SeqsOf(freq_queue))
    /\ \A i \in 1..Len(freq_queue) :
          w_freq.seq < freq_queue[i].seq /\ freq_queue[i].seq <= emitted
    /\ Increasing(SeqsOf(g_frame_queue))
    /\ \A i \in 1..Len(g_frame_queue) :
          /\ sent_last < g_frame_queue[i].seq
          /\ g_frame_queue[i].seq <= w_freq.seq
    /\ Increasing(pushed_log)
    /\ (wpc \in {"rearm", "locked", "wait"} /\ w_freq.seq # 0)
          => (pushed_log # << >> /\ Last(pushed_log) = w_freq.seq)
    /\ wpc \in {"process", "drop", "readd"}
          => (pushed_log = << >> \/ Last(pushed_log) < w_freq.seq)
    /\ wpc \in {"drop", "readd"} => w_frame.seq = w_freq.seq

\* C6, its case: the first result was dropped from freq_queue, and the
\* Frame of a later one is the first the worker made and has been sent
C6_SentAfterDrop ==
    /\ pushed_log # << >>
    /\ pushed_log[1] > 1
    /\ Len(pushed_log) < FrameDepth
    /\ sent_last = pushed_log[1]

\* an interval within the lock threshold
WithinLock(error_ppm) ==
    -PPS_LOCK_THRESHOLD_PPM < error_ppm /\ error_ppm < PPS_LOCK_THRESHOLD_PPM

RECURSIVE SaturatingCount(_, _)
\* the counter that goes up by one, to 5 at most, on an interval within the
\* threshold and down by one, to 0 at least, on any other
SaturatingCount(c, errs) ==
    IF errs = << >> THEN c
    ELSE SaturatingCount(
             IF WithinLock(Head(errs)) THEN Min(c + 1, PPS_LOCK_COUNTER_MAX)
             ELSE Max(c - 1, 0),
             Tail(errs))

\* the counter before the last n intervals of pps_hist
CountBeforeLast(n) ==
    SaturatingCount(pps_base, SubSeq(pps_hist, 1, Len(pps_hist) - n))

\* the last n intervals of pps_hist
LastErrors(n) ==
    {pps_hist[i] : i \in (Len(pps_hist) - n + 1)..Len(pps_hist)}

\* C7: whenever pps_cal_tick is not in the middle of its reset,
\* 0 <= lock_counter <= 5 and locked = (lock_counter >= 3).
C7_LockedIffCounterAtLeast3 ==
    tick_pending = {}
        => /\ g_lock_counter \in 0..PPS_LOCK_COUNTER_MAX
           /\ g_locked = (g_lock_counter >= PPS_LOCK_LEVEL)

\* C8: three consecutive intervals with |e_ppm| < 5, with no store of a
\* reset since the first of them, leave locked = true.
C8_ThreeGoodIntervalsLock ==
    (Len(pps_hist) >= 3 /\ \A e \in LastErrors(3) : WithinLock(e))
        => g_locked

\* C8, its case: from lock_counter = 0, exactly three intervals, all within
\* the threshold
C8_ThreeGoodFromZero ==
    /\ pps_base = 0
    /\ Len(pps_hist) = 3
    /\ \A e \in LastErrors(3) : WithinLock(e)

\* C9 as stated: after being locked with lock_counter = 3, two consecutive
\* intervals with |e_ppm| >= 5 still keep the lock flag set.
C9_TwoBadFromThreeKeepLock ==
    (/\ Len(pps_hist) >= 3
     /\ CountBeforeLast(2) = PPS_LOCK_LEVEL
     /\ \A e \in LastErrors(2) : ~WithinLock(e))
        => g_locked

\* C9 amended: after being locked with lock_counter = 5, two consecutive
\* intervals with |e_ppm| >= 5 still keep the lock flag set; from
\* lock_counter = 3 one such interval clears it.
C9_TwoBadFromFiveKeepLock ==
    /\ (/\ Len(pps_hist) >= 3
        /\ CountBeforeLast(2) = PPS_LOCK_COUNTER_MAX
        /\ \A e \in LastErrors(2) : ~WithinLock(e))
          => g_locked
    /\ (/\ Len(pps_hist) >= 2
        /\ CountBeforeLast(1) = PPS_LOCK_LEVEL
        /\ \A e \in LastErrors(1) : ~WithinLock(e))
          => ~g_locked

\* C9, its case: the counter was 5, and two intervals off the threshold
\* have followed
C9_TwoBadAfterFive ==
    /\ Len(pps_hist) >= 3
    /\ CountBeforeLast(2) = PPS_LOCK_COUNTER_MAX
    /\ \A e \in LastErrors(2) : ~WithinLock(e)

\* C10 as stated: after a sequence of PPS edges from a reset counter, with
\* no reset in between, locked is true if and only if at least three of the
\* last five measured intervals had |e_ppm| < 5.
C10_LockedIffThreeOfLastFive ==
    (pps_base = 0 /\ Len(pps_hist) >= 5)
        => LET good == {e \in 1..5 :
                           WithinLock(pps_hist[Len(pps_hist) - 5 + e])}
           IN  g_locked <=> Cardinality(good) >= 3

\* C10 amended: after a sequence of PPS edges with no reset in between,
\* lock_counter is the saturating count of the measured intervals, from its
\* value at the last reset, and locked is true if and only if it is >= 3.
C10_LockedIffSaturatingCount ==
    Len(pps_hist) >= 1
        => /\ g_lock_counter = SaturatingCount(pps_base, pps_hist)
           /\ g_locked <=> SaturatingCount(pps_base, pps_hist) >= PPS_LOCK_LEVEL

\* C10, its case: from a reset counter, three intervals within the
\* threshold and then two off it: three of the last five are good, and the
\* counter is at 1
C10_ThreeGoodTwoBad ==
    /\ pps_base = 0
    /\ Len(pps_hist) = 5
    /\ \A i \in 1..3 : WithinLock(pps_hist[i])
    /\ \A i \in 4..5 : ~WithinLock(pps_hist[i])


\* C11: when pps_cal_tick has run at a time 3 000 000 us or more after the
\* last call of pps_cal_on_pps_edge (exactly 3 000 000 us included), the
\* module is unlocked, its correction is 0 and its lock counter is 0.
C11_StaleTickResets ==
    (tpc = "feed" /\ tick_now >= g_last_edge_us + PPS_TIMEOUT_US)
        => (~g_locked /\ g_correction_ppm = 0 /\ g_lock_counter = 0)

(***************************************************************************)
(* The gate alarm.                                                         *)
(***************************************************************************)
\* a step in which start_window (from main, from the worker, or from a sync
\* rising edge) or stop has run to its end
WindowOpDone ==
    \/ ~started /\ started'
    \/ Core1Inside /\ wpc' = "wait"
    \/ /\ irq.kind = "none" /\ irq'.kind = "none"
       /\ ~sync_level /\ sync_level'
    \/ irq.kind = "sync" /\ irq.high /\ irq'.kind = "none"
    \/ stop_left' # stop_left /\ epc' = "idle"

\* C12: start_window in either mode, stop, and a sync-begun re-arm each
\* cancel the gate alarm of the window before: right after one of them, no
\* alarm that was live before it is still live.
C12_WindowOpCancelsOldAlarm ==
    [][WindowOpDone => (alarms' \cap alarms = {})]_vars

\* C13: at most one gate alarm is live (scheduled, not yet fired or
\* cancelled) in every reachable state.
C13_AtMostOneLiveAlarm == Cardinality(alarms) <= 1

\* a Gated window begun by a sync rising edge while the alarm of the window
\* main() started was still live: the only live alarm is the new one
C13_SyncRearmReplacedAlarm ==
    /\ cfg_mode = TERPS_MODE_GATED
    /\ started
    /\ win_by_sync
    /\ sync_left = MaxSyncEvents - 1
    /\ g_state.start_us > BootUs
    /\ g_state.start_us < BootUs + (TauMs * 1000)
    /\ alarms = {[id |-> g_state.gate_alarm,
                  deadline |-> g_state.start_us + (TauMs * 1000)]}

(***************************************************************************)
(* stop and the emission policy.                                           *)
(***************************************************************************)
\* the edge counter is IDLE: inactive, no window, counters zero
IsIdle(s) ==
    /\ ~s.active
    /\ ~s.window_open
    /\ s.pulses = 0
    /\ s.raw_edges = 0
    /\ s.glitch_count = 0
    /\ s.target_edges = 0

\* the step enqueued exactly the FreqResult r, or holds it for the re-add
\* after dropping the oldest of a full queue
EnqueuedExactly(r) ==
    /\ emitted' = emitted + 1
    /\ r.seq = emitted'
    /\ IF epc' = "idle"
       THEN freq_queue' = Append(freq_queue, r)
       ELSE e_result' = r /\ freq_queue' = freq_queue

\* C14: stop() leaves the counter IDLE with no live alarm; a window that was
\* open with at least one accepted pulse gives exactly one FreqResult, with
\* timeout = true; otherwise nothing is enqueued; a stop() of an IDLE
\* counter changes nothing.
C14_StopEmitsAndIdles ==
    [][(stop_left' # stop_left) =>
          /\ epc' = "idle" => (IsIdle(g_state') /\ alarms' = {})
          /\ IF g_state.window_open /\ g_state.pulses >= 1
             THEN \E r \in {FreqResultOf(g_state, TRUE, emitted + 1)} :
                     /\ r.timeout
                     /\ r.pulses = g_state.pulses
                     /\ EnqueuedExactly(r)
             ELSE /\ epc' = "idle"
                  /\ UNCHANGED <<freq_queue, emitted>>
          /\ ~g_state.active =>
                UNCHANGED <<g_state, alarms, freq_queue, emitted>>]_vars

\* stop() has just ended a Reciprocal window that had accepted pulses: its
\* result, the newest of the queue, is a timeout
C14_StoppedOpenWindow ==
    /\ stop_left = 0
    /\ IsIdle(g_state)
    /\ alarms = {}
    /\ freq_queue # << >>
    /\ Last(freq_queue).seq = emitted
    /\ Last(freq_queue).timeout
    /\ Last(freq_queue).mode = TERPS_MODE_RECIP

\* a step in which a window ends: enqueue_result_locked runs on an active
\* counter (from an edge reaching the target, the gate alarm, a sync falling
\* edge or stop)
WindowEnds ==
    /\ epc = "idle"
    /\ g_state.active
    /\ ~g_state'.active \/ epc' = "drop"

\* C15: when a window ends the state is reset to IDLE; a FreqResult is
\* enqueued if and only if the window was open with pulses >= 1; a window
\* with no accepted pulse is discarded, and freq_queue, freq_estimate_hz and
\* min_interval_us stay as they were.
C15_EmitIffPulsesThenReset ==
    [][/\ WindowEnds =>
            /\ epc' = "idle" => IsIdle(g_state')
            /\ emitted' \in {emitted, emitted + 1}
            /\ (emitted' = emitted + 1)
                  <=> (g_state.window_open /\ g_state.pulses >= 1)
            /\ emitted' = emitted + 1 =>
                  IF epc' = "idle"
                  THEN /\ Len(freq_queue') = Len(freq_queue) + 1
                       /\ SubSeq(freq_queue', 1, Len(freq_queue)) = freq_queue
                       /\ Last(freq_queue').seq = emitted'
                  ELSE /\ e_result'.seq = emitted'
                       /\ freq_queue' = freq_queue
            /\ emitted' = emitted =>
                  /\ freq_queue' = freq_queue
                  /\ g_state'.freq_estimate_hz = g_state.freq_estimate_hz
                  /\ g_state'.min_interval_us = g_state.min_interval_us
       /\ (epc = "readd" /\ epc' = "idle") =>
            /\ IsIdle(g_state')
            /\ Last(freq_queue') = e_result]_vars

\* the window main() started has ended with no accepted pulse: nothing was
\* ever emitted and the estimate is the initial one
C15_ZeroPulseWindowDiscarded ==
    /\ started
    /\ IsIdle(g_state)
    /\ emitted = 0
    /\ freq_queue = << >>
    /\ g_state.freq_estimate_hz = CentiHz(DEFAULT_FREQ_ESTIMATE)
    /\ g_state.min_interval_us = InitState.min_interval_us

(***************************************************************************)
(* The worker and the ADC.                                                 *)
(***************************************************************************)
\* C16: the worker enqueues exactly one Frame for the FreqResult it took,
\* whether the ADC read succeeds or not; after a timeout the Frame has the
\* ADC_TIMEOUT bit and the cached reading of the last successful read (0 if
\* none); only a successful read changes the cached reading.
C16_FrameForEveryResult ==
    [][/\ (wpc = "process" /\ wpc' # "process") =>
            \E f \in {IF wpc' = "rearm" THEN Last(g_frame_queue')
                      ELSE w_frame'} :
               /\ f.seq = w_freq.seq
               /\ wpc' = "rearm" =>
                     g_frame_queue' = Append(g_frame_queue, f)
               /\ wpc' # "rearm" => g_frame_queue' = g_frame_queue
               /\ IF adc_fail_left' < adc_fail_left
                  THEN /\ TERPS_FLAG_ADC_TIMEOUT \in f.flags
                       /\ f.diode_uV = g_last_diode_uV
                       /\ g_last_diode_uV' = g_last_diode_uV
                  ELSE /\ TERPS_FLAG_ADC_TIMEOUT \notin f.flags
                       /\ f.diode_uV = AdcSampleUv
                       /\ g_last_diode_uV' = AdcSampleUv
       /\ (wpc = "readd" /\ wpc' = "rearm") =>
            /\ g_frame_queue' # << >>
            /\ Last(g_frame_queue') = w_frame
            /\ Len(g_frame_queue') <= FrameDepth
       /\ wpc # "process" => g_last_diode_uV' = g_last_diode_uV]_vars

\* a Frame built after an ADC timeout that followed a successful read: it
\* has the ADC_TIMEOUT bit and carries the earlier reading
C16_TimeoutFrameCarriesLastGood ==
    \E i \in DOMAIN g_frame_queue :
       /\ TERPS_FLAG_ADC_TIMEOUT \in g_frame_queue[i].flags
       /\ g_frame_queue[i].diode_uV = AdcSampleUv
       /\ g_last_diode_uV = AdcSampleUv

(***************************************************************************)
(* The frequency estimate.                                                 *)
(***************************************************************************)
\* 1 Hz <= f <= 1 000 000 Hz, f in hundredths of a hertz
InFreqRange(f) == CentiHz(MIN_FREQ_LIMIT) <= f /\ f <= CentiHz(MAX_FREQ_LIMIT)

\* C17: in every reachable state freq_estimate_hz is between 1 Hz and
\* 1 000 000 Hz, and so is the f_hz of every emitted FreqResult.
C17_FrequencyInRange ==
    /\ InFreqRange(g_state.freq_estimate_hz)
    /\ \A r \in LiveResults : InFreqRange(r.f_hz)

\* the largest int32_t
Int32Max == (32767 * 65536) + 65535

\* |f_hz_x1e4 - round(f_hz x 10^4)| <= 1, f_hz in hundredths of a hertz; a
\* product beyond int32_t is further than 1 from every int32_t
WithinOneOfX1e4(r) ==
    /\ r.f_hz <= Int32Max \div 100
    /\ Abs(r.f_hz_x1e4 - (100 * r.f_hz)) <= 1

\* C18: the int32_t field f_hz_x1e4 of every emitted FreqResult is within 1
\* of round(f_hz x 10^4), for every f_hz up to 1 000 000 Hz.
C18_FixedPointMatchesFloat == \A r \in LiveResults : WithinOneOfX1e4(r)

(***************************************************************************)
(* Reciprocal windows.                                                     *)
(***************************************************************************)
\* max(64, round(clamp(f, 1, 10^6) x tau_ms / 1000)), f in hundredths of a
\* hertz
RoundedTarget(f, tau_ms) ==
    Max(MIN_RECIP_EDGES,
        RoundDiv(Min(Max(f, CentiHz(MIN_FREQ_LIMIT)), CentiHz(MAX_FREQ_LIMIT))
                    * tau_ms,
                 100000))

\* a step that emits a FreqResult of a Reciprocal window with no sync and no
\* stop event in it
ReciprocalEmission ==
    /\ g_state.mode = TERPS_MODE_RECIP
    /\ epc = "idle"
    /\ emitted' = emitted + 1
    /\ sync_left' = sync_left
    /\ stop_left' = stop_left
    /\ irq.kind # "sync"

\* C19: a Reciprocal window has target_edges = max(64, round(clamped
\* estimate x tau_ms / 1000)); without sync or stop it emits exactly when
\* the accepted pulses reach target_edges, with pulses = target_edges >= 64
\* and timeout = false, and the state is then reset.
C19_ReciprocalEmitsAtTarget ==
    [][/\ (g_state'.active /\ g_state'.mode = TERPS_MODE_RECIP
             /\ epc' = "idle") =>
            /\ g_state'.target_edges =
                  RoundedTarget(g_state'.freq_estimate_hz, g_state'.tau_ms)
            /\ g_state'.pulses < g_state'.target_edges
       /\ ReciprocalEmission =>
            \E r \in {IF epc' = "idle" THEN Last(freq_queue')
                      ELSE e_result'} :
               /\ r.seq = emitted'
               /\ g_state.pulses + 1 = g_state.target_edges
               /\ r.pulses = g_state.target_edges
               /\ r.pulses >= MIN_RECIP_EDGES
               /\ ~r.timeout
               /\ epc' = "idle" => IsIdle(g_state')]_vars

\* a Reciprocal window has reached its target of 64 accepted pulses and its
\* result is in the queue
C19_TargetReached ==
    /\ IsIdle(g_state)
    /\ freq_queue # << >>
    /\ Last(freq_queue).seq = emitted
    /\ Last(freq_queue).mode = TERPS_MODE_RECIP
    /\ Last(freq_queue).pulses = MIN_RECIP_EDGES
    /\ ~Last(freq_queue).timeout

(***************************************************************************)
(* Scenario S1: Reciprocal, steady 10 kHz, tau = 100 ms.                   *)
(***************************************************************************)
\* C20: with edges every 100 us, no glitch and no ppm correction, and the
\* worker re-arming after each result, every emitted FreqResult has
\* pulses = 1000, glitch_count = 0 and f_hz between 9995 Hz and 10005 Hz.
C20_SteadyTenKilohertz ==
    \A r \in LiveResults :
       /\ r.pulses = 1000
       /\ r.glitch_count = 0
       /\ CentiHz(9995) <= r.f_hz
       /\ r.f_hz <= CentiHz(10005)

(***************************************************************************)
(* The deglitcher.                                                         *)
(***************************************************************************)
\* C21: of two runs of one Gated window over the same edge timestamps, the
\* run with the larger min_interval_frac (a deadband at least as long) has
\* glitch_count >= and pulses <= those of the other run.
C21_LargerDeadbandFewerPulses ==
    /\ twin_hi.min_interval_us >= twin_lo.min_interval_us
    /\ twin_hi.raw_edges = twin_lo.raw_edges
    /\ twin_hi.glitch_count >= twin_lo.glitch_count
    /\ twin_hi.pulses <= twin_lo.pulses

\* all the edges are in, the run with the larger deadband has fewer pulses,
\* and its last accepted edge is one the other run discarded
C21_RunsDiverged ==
    /\ twin_lo.raw_edges = MaxTwinEdges
    /\ twin_hi.min_interval_frac > twin_lo.min_interval_frac
    /\ twin_hi.pulses < twin_lo.pulses
    /\ twin_lo.glitch_count >= 1
    /\ twin_hi.last_edge_us > twin_lo.last_edge_us

(***************************************************************************)
(* The transport.                                                          *)
(***************************************************************************)
\* a step in which main() hands a Frame to usb_cdc_send_frame
SendStep == sent_last' # sent_last

\* C24: each Frame the main loop removes from frame_queue is handed to
\* usb_cdc_send_frame exactly once; when the link is not ready or has no
\* room in time the send returns failure, nothing of the Frame is written,
\* and the Frame is neither retried nor queued again; a send that succeeds
\* writes the Frame.
C24_FailedSendDropsFrame ==
    [][SendStep =>
          /\ g_frame_queue # << >>
          /\ sent_last' = Head(g_frame_queue).seq
          /\ sent_last' > sent_last
          /\ g_frame_queue' = Tail(g_frame_queue)
          /\ \A i \in DOMAIN g_frame_queue' :
                g_frame_queue'[i].seq > sent_last'
          /\ w_frame' = w_frame
          /\ IF usb_fail_left' < usb_fail_left
             THEN /\ ~cdc_out'.ok
                  /\ cdc_out'.seq = cdc_out.seq
                  /\ cdc_out'.dropped = sent_last'
             ELSE /\ cdc_out'.ok
                  /\ cdc_out'.seq = sent_last'
                  /\ cdc_out'.dropped = cdc_out.dropped]_vars

\* a send failed and its Frame was not written; the Frame after it has
\* been written
C24_WrittenAfterFailedSend ==
    /\ cdc_out.dropped > 0
    /\ cdc_out.ok
    /\ cdc_out.seq > cdc_out.dropped
    /\ sent_last = cdc_out.seq

(***************************************************************************)
(* The counters of a window.                                               *)
(***************************************************************************)
\* C25: in every reachable state raw_edges = pulses + glitch_count, and
\* every emitted FreqResult has glitch_count = raw_pulses - pulses, whatever
\* ended its window.
C25_RawIsPulsesPlusGlitches ==
    /\ g_state.raw_edges = g_state.pulses + g_state.glitch_count
    /\ \A r \in LiveResults : r.glitch_count = r.raw_pulses - r.pulses

\* a window in which an edge fell inside the deadband has ended by the gate
\* alarm or stop, and its result is queued
C25_QueuedResultWithGlitch ==
    \E i \in DOMAIN freq_queue :
       /\ freq_queue[i].glitch_count = MaxGlitches
       /\ freq_queue[i].pulses >= 1
       /\ freq_queue[i].timeout

\* a step in which the GPIO handler of the freq pin has run on an armed
\* counter without ending the window: no other handler or call took part
EdgeStep ==
    /\ epc = "idle"
    /\ irq.kind \in {"none", "edge"}
    /\ irq'.kind = "none"
    /\ g_state.active
    /\ g_state' # g_state
    /\ UNCHANGED <<sync_left, stop_left, setmin_left, started, wpc,
                   sent_last, alarms>>

\* the timestamp gpio_callback took for the edge of this step
EdgeTimestamp == IF irq.kind = "edge" THEN irq.ts ELSE now'

\* C27: an edge that arrives in an active window less than min_interval_us
\* after the last accepted edge increments raw_edges and glitch_count and
\* leaves every other field and freq_queue as they were; an edge that
\* arrives while no window is active changes nothing.
C27_GlitchEdgeOnlyCounted ==
    /\ [](~g_state.active =>
            \A d \in EdgeGaps :
               /\ handle_edge_locked(g_state, now + d) = g_state
               /\ ~EdgeAccepted(g_state, now + d))
    /\ [][(/\ EdgeStep
           /\ g_state.last_edge_us # 0
           /\ EdgeTimestamp - g_state.last_edge_us < g_state.min_interval_us)
          => /\ g_state' = [g_state EXCEPT !.raw_edges = @ + 1,
                                           !.glitch_count = @ + 1]
             /\ UNCHANGED <<freq_queue, emitted, epc, e_result>>]_vars

\* an edge inside the deadband has just been counted: the last accepted
\* edge, which is also end_us, is less than min_interval_us ago
C27_GlitchJustCounted ==
    /\ g_state.active
    /\ g_state.glitch_count = MaxGlitches
    /\ g_state.raw_edges = g_state.pulses + MaxGlitches
    /\ g_state.last_edge_us # 0
    /\ g_state.end_us = g_state.last_edge_us
    /\ now - g_state.last_edge_us < g_state.min_interval_us

\* the FreqResult a step has built: queued, or held for the re-add
ResultBuilt == IF epc' = "idle" THEN Last(freq_queue') ELSE e_result'

\* C28: an armed Reciprocal window is not open before its first accepted
\* edge; that edge opens it and sets start_us to its own timestamp, which
\* start_us keeps while the window is open; the FreqResult of a Reciprocal
\* window, sync-begun ones too, has that start_us; window_open implies
\* active in every state.
C28_ReciprocalOpensAtFirstEdge ==
    /\ [](/\ g_state.window_open => g_state.active
          /\ (g_state.active /\ g_state.mode = TERPS_MODE_RECIP) =>
                /\ g_state.window_open <=> g_state.pulses >= 1
                /\ ~g_state.window_open =>
                      g_state.start_us = 0 /\ g_state.last_edge_us = 0)
    /\ [][/\ (/\ g_state.active
              /\ g_state.mode = TERPS_MODE_RECIP
              /\ ~g_state.window_open
              /\ g_state'.window_open)
             => /\ irq.kind \in {"none", "edge"}
                /\ g_state'.mode = TERPS_MODE_RECIP
                /\ g_state'.pulses = 1
                /\ g_state'.start_us = EdgeTimestamp
          /\ (/\ g_state.mode = TERPS_MODE_RECIP
              /\ g_state.window_open
              /\ g_state'.window_open)
             => /\ g_state'.mode = TERPS_MODE_RECIP
                /\ g_state'.start_us = g_state.start_us
          /\ (/\ g_state.mode = TERPS_MODE_RECIP
              /\ epc = "idle"
              /\ emitted' = emitted + 1)
             => /\ g_state.window_open
                /\ ResultBuilt.seq = emitted'
                /\ ResultBuilt.mode = TERPS_MODE_RECIP
                /\ ResultBuilt.start_us = g_state.start_us]_vars

\* a Reciprocal window begun by a sync rising edge is open: its start_us is
\* the time of its first accepted edge, and a second edge has been accepted
\* after it
C28_SyncWindowStartsAtEdge ==
    /\ g_state.active
    /\ g_state.mode = TERPS_MODE_RECIP
    /\ win_by_sync
    /\ g_state.window_open
    /\ g_state.pulses = MaxShortEdges
    /\ g_state.start_us > BootUs
    /\ g_state.start_us < g_state.last_edge_us

(***************************************************************************)
(* The deadband.                                                           *)
(***************************************************************************)
\* max(1, floor((10^6 / clamp(f, 1, 10^6)) x frac)), with 0.25 for a frac
\* that is not positive; f in hundredths of a hertz, frac in percent
DeadbandOf(f, frac_pct) ==
    Max(1,
        (1000000 * (IF frac_pct <= 0 THEN 25 ELSE frac_pct))
           \div Min(Max(f, CentiHz(MIN_FREQ_LIMIT)), CentiHz(MAX_FREQ_LIMIT)))

\* C29: min_interval_us >= 1 in every reachable state, and right after
\* every emission and every set_min_interval call it is
\* max(1, floor((10^6 / clamp(freq_estimate_hz, 1, 10^6)) x frac)), frac
\* being min_interval_frac, or 0.25 when that is not positive.
C29_DeadbandFollowsEstimate ==
    /\ [](g_state.min_interval_us >= 1)
    /\ [][(\/ emitted' = emitted + 1
           \/ setmin_left' # setmin_left)
          => g_state'.min_interval_us =
                DeadbandOf(g_state'.freq_estimate_hz,
                           g_state'.min_interval_frac)]_vars

\* set_min_interval was called with 0 in a window that has since emitted:
\* the deadband is the one of the new estimate and a frac of 0.25
C29_EmittedWithDefaultFrac ==
    /\ g_state.min_interval_frac = 0
    /\ ~g_state.active
    /\ emitted >= 1
    /\ g_state.freq_estimate_hz # CentiHz(DEFAULT_FREQ_ESTIMATE)
    /\ g_state.min_interval_us # InitState.min_interval_us

(***************************************************************************)
(* The gate alarm and the window it ends.                                  *)
(***************************************************************************)
\* a step in which gate_alarm_cb ends a Gated window (a sync falling edge
\* and stop, the other ends of a Gated window, are not part of it)
AlarmEndsWindow ==
    /\ epc = "idle"
    /\ irq.kind \in {"none", "alarm"}
    /\ irq'.kind = "none"
    /\ g_state.active
    /\ g_state.mode = TERPS_MODE_GATED
    /\ ~g_state'.active \/ epc' = "drop"
    /\ UNCHANGED <<sync_left, stop_left, setmin_left, started, wpc>>

\* C26: the gate alarm ends a Gated window only at that window's own
\* deadline, tau_ms after its start_us, and every FreqResult gate_alarm_cb
\* emits has end_us - start_us >= tau_ms x 1000, also when the callback of
\* an earlier alarm was waiting for the lock while the window was armed.
C26_AlarmEndsWindowAtDeadline ==
    [][AlarmEndsWindow =>
          /\ now >= g_state.start_us + (g_state.tau_ms * 1000)
          /\ emitted' = emitted + 1 =>
                ResultBuilt.end_us - ResultBuilt.start_us
                   >= g_state.tau_ms * 1000]_vars

\* a step of freq_counter_update_timebase_ppm (feed_pps_correction)
UpdateTimebaseStep == tpc = "feed" /\ tpc' = "idle"

\* C22: the frequency of every emitted FreqResult is pulses * 10^6 /
\* elapsed_us corrected by the timebase_ppm that the state holds when the
\* emitting critical section begins; and freq_counter_update_timebase_ppm is
\* one critical section of its own: it runs while no context is inside the
\* edge lock, writes timebase_ppm alone and emits nothing, so it is wholly
\* before or wholly after any emission.
C22_EmissionUsesCurrentPpm ==
    /\ [][emitted' = emitted + 1 =>
             ResultBuilt.f_hz =
                ApplyPpm(RawFreq(ResultBuilt.pulses,
                                 ResultBuilt.end_us - ResultBuilt.start_us),
                         g_state.timebase_ppm)]_vars
    /\ [][UpdateTimebaseStep =>
             /\ ~Core0Inside
             /\ ~Core1Inside
             /\ irq.kind = "none"
             /\ emitted' = emitted
             /\ freq_queue' = freq_queue
             /\ g_state' = [g_state EXCEPT !.timebase_ppm = g_correction_ppm]]_vars

\* a queued FreqResult whose frequency differs from the uncorrected one: a
\* non-zero correction was applied
C22_EmittedWithCorrection ==
    \E i \in 1..Len(freq_queue) :
       freq_queue[i].f_hz # RawFreq(freq_queue[i].pulses,
                                    freq_queue[i].end_us - freq_queue[i].start_us)

\* C30: the 16-bit field ppm_corr_x1e2 of every Frame equals the correction
\* in hundredths of a ppm, for every correction the PPS filter reaches,
\* including after a PPS interval of 2 000 000 us.
C30_PpmFieldMatchesCorrection ==
    \A i \in 1..Len(g_frame_queue) :
       g_frame_queue[i].ppm_corr_x1e2 = g_frame_queue[i].ppm_corr

\* C23: lock discipline of the edge critical section.  No two contexts are
\* inside it in the same state; while a context is inside, g_state changes
\* only by a step of that context; the worker is not inside when it waits on
\* or returns from the blocking queue wait; and no context is ever stuck on
\* the lock: a holder can always take its next step towards the exit, and a
\* handler or the worker waiting for the lock can enter once it is free.
C23_LockDiscipline ==
    /\ [](~(Core0Inside /\ Core1Inside))
    /\ [][g_state' # g_state =>
             /\ Core1Inside => wpc' = "wait"
             /\ Core0Inside => epc' # epc]_vars
    /\ [][(wpc = "wait" \/ wpc' = "process") => ~Core1Inside]_vars
    /\ [](Core1Inside => ENABLED WorkerRearm)
    /\ [](Core0Inside => ENABLED (EnqDrop \/ EnqReadd))
    /\ []((irq.kind # "none" /\ ~Core1Inside) => ENABLED IrqResume)
    /\ []((wpc = "rearm" /\ ~Core0Inside) => ENABLED WorkerLock)

\* a handler of core 0 spins on the lock while core 1 is inside
C23_HandlerWaitsForWorker == irq.kind # "none" /\ Core1Inside

\* the worker is about to take the lock while core 0 is inside
WorkerWaitsForCore0 == wpc = "rearm" /\ Core0Inside

\* a step that ends or restarts a window holding pulses: the pulse count of
\* an active window goes down
PulsesCleared ==
    /\ g_state.active
    /\ g_state.pulses >= 1
    /\ g_state'.pulses < g_state.pulses

\* C31: no counted pulse is silently lost: every step that clears the pulse
\* count of an active window holding at least one pulse enqueues a
\* FreqResult for that window (in that step, or in the overflow enqueue the
\* step completes).
C31_PulsesNeverDiscarded ==
    [][PulsesCleared => (emitted' = emitted + 1 \/ epc = "readd")]_vars

\* the producer's queue_try_remove after a failed try_add discards an
\* element of the FreqResult queue, of the frame queue
FreqProducerDiscards ==
    epc = "drop" /\ epc' = "readd" /\ freq_queue' # freq_queue

FrameProducerDiscards ==
    wpc = "drop" /\ wpc' = "readd" /\ g_frame_queue' # g_frame_queue

\* C32: a producer discards an element of freq_queue or of the frame queue
\* only while that queue is full, whatever the consumer on the other core
\* does between the producer's try_add, try_remove and try_add.
C32_DiscardOnlyWhenFull ==
    [][/\ FreqProducerDiscards => Len(freq_queue) = FreqDepth
       /\ FrameProducerDiscards => Len(g_frame_queue) = FrameDepth]_vars

\* a step of the public freq_counter_start_window: main()'s first call, or
\* the worker's re-arm
PublicStartStep ==
    \/ ~started /\ started'
    \/ wpc = "locked" /\ wpc' = "wait"

\* a step of handle_sync_locked(true)
SyncStartStep == sync_left' = sync_left - 1 /\ sync_level'

\* C33: freq_counter_start_window leaves min_interval_frac and timebase_ppm
\* at the configured values and leaves min_interval_us (and the estimate) as
\* they were, so what set_min_interval or update_timebase_ppm stored is gone
\* after it; a start by a sync rising edge leaves min_interval_frac,
\* timebase_ppm, min_interval_us and freq_estimate_hz as they were.
C33_StartWindowFrame ==
    /\ [][PublicStartStep =>
             /\ g_state'.min_interval_frac = CfgMinIntervalPct
             /\ g_state'.timebase_ppm = CfgTimebasePpm
             /\ g_state'.min_interval_us = g_state.min_interval_us
             /\ g_state'.freq_estimate_hz = g_state.freq_estimate_hz]_vars
    /\ [][SyncStartStep =>
             /\ g_state'.active
             /\ g_state'.min_interval_frac = g_state.min_interval_frac
             /\ g_state'.timebase_ppm = g_state.timebase_ppm
             /\ g_state'.min_interval_us = g_state.min_interval_us
             /\ g_state'.freq_estimate_hz = g_state.freq_estimate_hz]_vars

\* a window armed by start_window after set_min_interval gave another
\* fraction: the fraction is the configured one again, the deadband is still
\* the one the host's fraction gave
C33_RestartKeptHostDeadband ==
    /\ g_state.active
    /\ setmin_left = 0
    /\ g_state.min_interval_frac = CfgMinIntervalPct
    /\ g_state.min_interval_us
          # MinIntervalUs(g_state.freq_estimate_hz, g_state.min_interval_frac)

=============================================================================
